---------------------------- MODULE Spec2Model ----------------------------
(***************************************************************************)
(* LLM gateway and placeholder-resolution pipeline of GrowthLoop.          *)
(*                                                                         *)
(*   ResolverSpec   the image-generation effect and finalEditorContent of  *)
(*                  ArticleArchitect (components/ConfirmDialog.tsx)        *)
(*   TransportSpec  postWithRetry, chatCompletion, imagesGenerate          *)
(*                  (services/geminiService.ts)                            *)
(*   JsonSpec       safeJSON (services/geminiService.ts)                   *)
(*   OrchestratorSpec  the operations of services/geminiService.ts         *)
(*   ResolutionSpec the effect's call for a prompt through the gateway     *)
(*   InsightSpec    handleGenerate and processInContextImages              *)
(*                  (components/InsightGenerator.tsx)                      *)
(*                                                                         *)
(* JavaScript strings are sequences of one-character strings.  An optional *)
(* value (T | null | undefined) is <<>> when absent and <<v>> when present.*)
(***************************************************************************)
EXTENDS Integers, Sequences, FiniteSets, Bags, TLC

VARIABLES
  \* ---- ArticleArchitect (React state of the component)
  activeHistoryItem,   \* optional id of the history item shown in the editor
  editorContent,       \* the source document text
  imagePlaceholders,   \* Record<prompt, {isLoading, url}>, in key insertion order
  requests,            \* bag of prompts whose generateInContextImage call is pending
  scanned,             \* history: the runs of the image generation effect in the last event
  \* ---- transport client
  env,                 \* import.meta.env: VITE_PLATO_BASE_URL, VITE_PLATO_API_KEY
  call,                \* the gateway call under way: operation and options
  pc,                  \* position of the call
  maxRetries,          \* parameter maxRetries of the current postWithRetry frame
  timers,              \* the timer (and abort controller) of each postWithRetry frame
  attempts,            \* history: status of each attempt's response, 0 if fetch rejected
  netCalls,            \* history: number of fetch calls
  retryAfter,          \* res.headers.get('retry-after') of the response last retried
  delay,               \* optional delay of the backoff wait last started
  body,                \* optional body of the response being read or last read
  bodyRead,            \* "none", "ok" or "failed": how reading that body ended
  thrown,              \* optional error postWithRetry rejected with
  outcome,             \* optional value the gateway call resolved to
  \* ---- response decoder
  jsonText,            \* argument s of safeJSON
  jsonFallback,        \* argument fallback of safeJSON
  jsonResult,          \* optional value safeJSON returned
  \* orchestrator (services/geminiService.ts)
  operation,           \* optional operation in progress: its name and whether input was given
  stage,               \* "idle", "chat" or "image" (the gateway call awaited), "returned"
  returned,            \* optional settled promise of the operation
  \* ---- InsightGenerator (React state of the component, and its running handler)
  selectedTopicIds,    \* Set<string> of the selected topics
  platform,            \* InsightPlatform shown in the header
  isGenerating,        \* boolean
  generatedContent,    \* the text shown in the result view
  generatedImage,      \* optional url of the social image
  generatedCover,      \* optional url of the cover
  run,                 \* closure of handleGenerate: position and local variables
  calls,               \* history: the service calls of the current run, in order
  saved                \* history: the items the current run handed to onSaveToHistory

rvars == <<activeHistoryItem, editorContent, imagePlaceholders, requests, scanned>>
tvars == <<env, call, pc, maxRetries, timers, attempts, netCalls, retryAfter,
           delay, body, bodyRead, thrown, outcome>>
jvars == <<jsonText, jsonFallback, jsonResult>>
ovars == <<operation, stage, returned>>
gvars == <<selectedTopicIds, platform, isGenerating, generatedContent, generatedImage,
           generatedCover, run, calls, saved>>
vars  == <<rvars, tvars, jvars, ovars, gvars>>

-----------------------------------------------------------------------------
(* Bounds of the model *)

\* number of placeholder tokens in an editor document
MaxSegs == 2
\* number of pieces in a reply text given to safeJSON
MaxTokens == 3

-----------------------------------------------------------------------------
(* Strings *)

\* the grave accent, written here as a tilde
GraveAccent == "~"

None == <<>>
Some(v) == <<v>>
IsSome(o) == o /= <<>>
Val(o) == o[1]

\* s.startsWith(pat, i - 1), positions counted from 1
StartsWithAt(s, pat, i) ==
  /\ i >= 1
  /\ i + Len(pat) - 1 <= Len(s)
  /\ \A k \in 1..Len(pat) : s[i + k - 1] = pat[k]

\* s.indexOf(pat, from - 1) + 1: position of the first occurrence at or after from; 0 if none
RECURSIVE IndexOf(_, _, _)
IndexOf(s, pat, from) ==
  IF from + Len(pat) - 1 > Len(s) THEN 0
  ELSE IF StartsWithAt(s, pat, from) THEN from
  ELSE IndexOf(s, pat, from + 1)

RECURSIVE Concat(_)
Concat(ss) == IF ss = <<>> THEN <<>> ELSE Head(ss) \o Concat(Tail(ss))

\* ECMAScript GetSubstitution for a string pattern: $$, $&, $' and $ with a grave accent are expanded
RECURSIVE GetSubstitution(_, _, _, _)
GetSubstitution(repl, matched, before, after) ==
  IF repl = <<>> THEN <<>>
  ELSE IF Head(repl) = "$" /\ Len(repl) >= 2 /\ repl[2] \in {"$", "&", GraveAccent, "'"}
  THEN (CASE repl[2] = "$" -> <<"$">>
          [] repl[2] = "&" -> matched
          [] repl[2] = GraveAccent -> before
          [] repl[2] = "'" -> after)
       \o GetSubstitution(SubSeq(repl, 3, Len(repl)), matched, before, after)
  ELSE <<Head(repl)>> \o GetSubstitution(Tail(repl), matched, before, after)

\* s.replace(pat, repl) with a string pattern: only the first occurrence is replaced
ReplaceFirst(s, pat, repl) ==
  LET i == IndexOf(s, pat, 1)
  IN IF i = 0 THEN s
     ELSE LET before == SubSeq(s, 1, i - 1)
              after  == SubSeq(s, i + Len(pat), Len(s))
          IN before \o GetSubstitution(repl, pat, before, after) \o after

\* number of non-overlapping occurrences of pat in s, scanning from position from
RECURSIVE Occurrences(_, _, _)
Occurrences(s, pat, from) ==
  LET i == IndexOf(s, pat, from)
  IN IF i = 0 THEN 0 ELSE 1 + Occurrences(s, pat, i + Len(pat))

-----------------------------------------------------------------------------
(* Placeholder tokens *)

TokenOpen  == <<"{", "{", "G", "E", "N", "_", "I", "M", "G", ":", " ">>
TokenClose == <<"}", "}">>
LineTerminators == {"\n", "\r"}

\* the template literal {{GEN_IMG: ${prompt}}}
Placeholder(prompt) == TokenOpen \o prompt \o TokenClose

\* One regex.exec of /{{GEN_IMG: (.*?)}}/g from lastIndex: the leftmost opener whose
\* first following "}}" is on the same line.  [at, prompt, next], at = 0 for null.
RECURSIVE RegexExec(_, _)
RegexExec(s, lastIndex) ==
  LET i == IndexOf(s, TokenOpen, lastIndex)
  IN IF i = 0 THEN [at |-> 0, prompt |-> <<>>, next |-> 0]
     ELSE LET b == i + Len(TokenOpen)
              j == IndexOf(s, TokenClose, b)
          IN IF j /= 0 /\ \A k \in b..(j - 1) : s[k] \notin LineTerminators
             THEN [at |-> i, prompt |-> SubSeq(s, b, j - 1), next |-> j + Len(TokenClose)]
             ELSE RegexExec(s, i + 1)

\* the prompts match[1] of the successive regex.exec calls of the while loop
RECURSIVE MatchAll(_, _)
MatchAll(s, lastIndex) ==
  LET m == RegexExec(s, lastIndex)
  IN IF m.at = 0 THEN <<>> ELSE <<m.prompt>> \o MatchAll(s, m.next)

-----------------------------------------------------------------------------
(* The state map: a JavaScript object with string keys, in insertion order *)

Keys(ph) == {ph[i].prompt : i \in 1..Len(ph)}
Has(ph, prompt) == prompt \in Keys(ph)
Get(ph, prompt) == ph[CHOOSE i \in 1..Len(ph) : ph[i].prompt = prompt].state

\* a variant that moves an updated key to the end of the object
PutAtEnd(prev, prompt, state) ==
  Append(SelectSeq(prev, LAMBDA e : e.prompt /= prompt), [prompt |-> prompt, state |-> state])

\* { ...prev, [prompt]: state }
Put(prev, prompt, state) ==
  IF Has(prev, prompt)
  THEN [i \in 1..Len(prev) |->
          IF prev[i].prompt = prompt THEN [prompt |-> prompt, state |-> state] ELSE prev[i]]
  ELSE Append(prev, [prompt |-> prompt, state |-> state])

Loading == [isLoading |-> TRUE, url |-> None]
\* a variant that stores the url as it came, without the || null
SettledKeepingEmpty(result) ==
  [isLoading |-> FALSE, url |-> IF IsSome(result) THEN Some(Val(result)) ELSE None]

\* { isLoading: false, url: url || null }
Settled(result) ==
  [isLoading |-> FALSE,
   url |-> IF IsSome(result) /\ Val(result) /= <<>> THEN Some(Val(result)) ELSE None]

IsLoading(ph, p)  == Has(ph, p) /\ Get(ph, p).isLoading
IsResolved(ph, p) == Has(ph, p) /\ ~Get(ph, p).isLoading /\ IsSome(Get(ph, p).url)
IsFailed(ph, p)   == Has(ph, p) /\ ~Get(ph, p).isLoading /\ ~IsSome(Get(ph, p).url)


-----------------------------------------------------------------------------
(* finalEditorContent: the materialized document *)

LoadingMarker == <<"\n", "<div>generating image...</div>", "\n">>
FailureMarker == <<"\n", "<div>image generation failed</div>", "\n">>
\* the template literal \n![Generated image for prompt: ${prompt}](${state.url})\n
ImageMarkdown(prompt, url) ==
  <<"\n", "![Generated image for prompt: ">> \o prompt \o <<"](">> \o url \o <<")", "\n">>

\* the replacement text chosen for one key of the state map
Replacement(prompt, state) ==
  IF state.isLoading THEN LoadingMarker
  ELSE IF IsSome(state.url) THEN ImageMarkdown(prompt, Val(state.url))
  ELSE FailureMarker

\* tempContent = tempContent.replace(placeholder, ...)
ReplaceToken(tempContent, placeholder, repl) == ReplaceFirst(tempContent, placeholder, repl)

\* Object.keys(imagePlaceholders).forEach(...) over tempContent = editorContent
RECURSIVE Materialize(_, _)
Materialize(tempContent, ph) ==
  IF ph = <<>> THEN tempContent
  ELSE Materialize(
         ReplaceToken(tempContent, Placeholder(Head(ph).prompt),
                      Replacement(Head(ph).prompt, Head(ph).state)),
         Tail(ph))

finalEditorContent == Materialize(editorContent, imagePlaceholders)

-----------------------------------------------------------------------------
(* The image generation effect *)

\* a variant that asks again for a prompt that has no url yet
NotProcessedNoUrl(ph, prompt) == ~Has(ph, prompt) \/ ~IsSome(Get(ph, prompt).url)

\* !imagePlaceholders[prompt], read from the state map of the render the effect belongs to
NotProcessed(ph, prompt) == ~Has(ph, prompt)

\* the prompts for which one run of the effect calls generateInContextImage, in order
EffectRequests(active, content, ph) ==
  IF ~IsSome(active) THEN <<>>
  ELSE SelectSeq(MatchAll(content, 1), LAMBDA p : NotProcessed(ph, p))

\* the queued updaters prev => ({ ...prev, [prompt]: { isLoading: true, url: null } })
RECURSIVE ApplyLoading(_, _)
ApplyLoading(prev, issued) ==
  IF issued = <<>> THEN prev
  ELSE ApplyLoading(Put(prev, Head(issued), Loading), Tail(issued))

RECURSIVE SeqToBag(_)
SeqToBag(seq) ==
  IF seq = <<>> THEN EmptyBag ELSE SetToBag({Head(seq)}) (+) SeqToBag(Tail(seq))

\* one run of the effect, in a commit whose render saw the state map ph
EffectRun(active, content, ph) ==
  LET issued == EffectRequests(active, content, ph)
  IN [tracked |-> Keys(ph), issued |-> issued, after |-> ApplyLoading(ph, issued)]

\* the state after the commits of one event: runs is the sequence of effect runs
AfterRuns(runs) ==
  /\ imagePlaceholders' = runs[Len(runs)].after
  /\ requests' = requests (+) SeqToBag(Concat([i \in 1..Len(runs) |-> runs[i].issued]))
  /\ scanned' = [i \in 1..Len(runs) |->
                   [tracked |-> runs[i].tracked, issued |-> runs[i].issued]]

-----------------------------------------------------------------------------
(* Inputs of the resolver *)

Prompt1 == <<"x">>
Prompt2 == <<"y">>
Pieces == {Placeholder(Prompt1), Placeholder(Prompt2)}
Heading == <<"#", " ", "T", "\n">>

\* a heading, then n tokens each on a line of its own, each followed by a paragraph
RECURSIVE BodiesOfLen(_)
BodiesOfLen(n) ==
  IF n = 0 THEN {<<>>}
  ELSE {p \o <<"\n", "a", ".", "\n">> \o d : p \in Pieces, d \in BodiesOfLen(n - 1)}

Docs == {<<>>} \cup {Heading \o b : b \in UNION {BodiesOfLen(n) : n \in 1..MaxSegs}}
ItemIds == {"h1"}
\* the second url holds the replacement pattern $& of String.prototype.replace
Urls == {<<"u", "1">>, <<"u", "$", "&">>}
\* what imagesGenerate resolves to: data?.data?.[0]?.url, or undefined
ImageResults == {None, Some(<<>>)} \cup {Some(u) : u \in Urls}

-----------------------------------------------------------------------------
(* Actions of the resolver *)

\* useState initial values; no gateway call and no decoding under way
ResolverInit ==
  /\ activeHistoryItem = None
  /\ editorContent = <<>>
  /\ imagePlaceholders = <<>>
  /\ requests = EmptyBag
  /\ scanned = <<>>
  /\ env = [base |-> <<>>, key |-> <<>>]
  /\ call = None /\ pc = "idle" /\ maxRetries = 0 /\ timers = <<>>
  /\ attempts = <<>> /\ netCalls = 0 /\ retryAfter = None /\ delay = None
  /\ body = None /\ bodyRead = "none" /\ thrown = None /\ outcome = None
  /\ jsonText = <<>> /\ jsonFallback = None /\ jsonResult = None
  /\ operation = None /\ stage = "idle" /\ returned = None
  /\ selectedTopicIds = {} /\ platform = "NEWSLETTER" /\ isGenerating = FALSE
  /\ generatedContent = <<>> /\ generatedImage = <<>> /\ generatedCover = <<>>
  /\ run = [at |-> "idle", platform |-> "NEWSLETTER", initialContent |-> <<>>,
            matches |-> <<>>, processedContent |-> <<>>]
  /\ calls = <<>> /\ saved = <<>>

\* setActiveHistoryItem(v).  First commit: "Sync editor content" queues
\* setEditorContent(v.content) and the image effect runs on the content still shown.
\* Second commit: editorContent = v.content, and the effect runs again if it changed.
SelectItem(id, content) ==
  LET first  == EffectRun(Some(id), editorContent, imagePlaceholders)
      second == EffectRun(Some(id), content, first.after)
  IN /\ activeHistoryItem' = Some(id)
     /\ editorContent' = content
     /\ AfterRuns(IF content /= editorContent THEN <<first, second>> ELSE <<first>>)
     /\ UNCHANGED <<tvars, jvars, ovars, gvars>>

\* onChange of the textarea: setEditorContent(e.target.value), commit, effect
EditContent(content) ==
  /\ IsSome(activeHistoryItem)
  /\ content /= editorContent
  /\ editorContent' = content
  /\ AfterRuns(<<EffectRun(activeHistoryItem, content, imagePlaceholders)>>)
  /\ UNCHANGED <<activeHistoryItem, tvars, jvars, ovars, gvars>>

\* the "new draft" button: setActiveHistoryItem(null); the effect returns at once
ClearItem ==
  /\ IsSome(activeHistoryItem)
  /\ activeHistoryItem' = None
  /\ UNCHANGED <<editorContent, imagePlaceholders, requests, scanned, tvars, jvars, ovars, gvars>>

\* a variant whose .then also stores the materialized document as the editor content
CompleteRequestWritingBack(prompt, result) ==
  /\ BagIn(prompt, requests)
  /\ requests' = requests (-) SetToBag({prompt})
  /\ imagePlaceholders' = Put(imagePlaceholders, prompt, Settled(result))
  /\ editorContent' = Materialize(editorContent, imagePlaceholders')
  /\ UNCHANGED <<activeHistoryItem, scanned, tvars, jvars, ovars, gvars>>

\* a pending generateInContextImage(prompt) resolves; its .then runs
\* setImagePlaceholders(prev => ({ ...prev, [prompt]: { isLoading: false, url: url || null } }))
CompleteRequest(prompt, result) ==
  /\ BagIn(prompt, requests)
  /\ requests' = requests (-) SetToBag({prompt})
  /\ imagePlaceholders' = Put(imagePlaceholders, prompt, Settled(result))
  /\ UNCHANGED <<activeHistoryItem, editorContent, scanned, tvars, jvars, ovars, gvars>>

ResolverNext ==
  \/ \E id \in ItemIds, d \in Docs : SelectItem(id, d)
  \/ \E d \in Docs : EditContent(d)
  \/ ClearItem
  \/ \E p \in BagToSet(requests), r \in ImageResults : CompleteRequest(p, r)

ResolverSpec ==
  /\ ResolverInit
  /\ [][ResolverNext]_vars

-----------------------------------------------------------------------------
(* Transport client: configuration *)

\* (import.meta.env.VITE_PLATO_BASE_URL || '').replace(/\/$/, '')
StripTrailingSlash(str) ==
  IF str /= <<>> /\ str[Len(str)] = "/" THEN SubSeq(str, 1, Len(str) - 1) ELSE str
OrEmpty(opt) == IF IsSome(opt) THEN Val(opt) ELSE <<>>
BASE_URL == StripTrailingSlash(OrEmpty(env.base))
API_KEY == OrEmpty(env.key)

\* a variant that gives up only when both settings are missing
MissingBoth(base, key) == base = <<>> /\ key = <<>>

\* !BASE_URL || !API_KEY
NotConfigured(base, key) == base = <<>> \/ key = <<>>

\* The fixed texts of the gateway.  A Chinese character is written as one lower-case
\* Latin letter (the initial of its reading) and full-width punctuation as its ASCII
\* form, so every text keeps its length.
ConfigMessage ==
  <<"P", "l", "a", "t", "o", " ", "j", "k", "w", "p", "z", ":", "q", "s", "z", " ",
    "V", "I", "T", "E", "_", "P", "L", "A", "T", "O", "_", "A", "P", "I", "_", "K",
    "E", "Y", " ", "y", " ", "V", "I", "T", "E", "_", "P", "L", "A", "T", "O", "_",
    "B", "A", "S", "E", "_", "U", "R", "L">>
ErrorPrefix == <<"P", "l", "a", "t", "o", " ", "j", "k", "c", "w", ":">>
EmptyResponse == <<"(", "k", "x", "y", ")">>

\* timeoutMs of postWithRetry: options.timeout_ms ?? 30000, opts.timeout_ms ?? 60000
ChatTimeout == 30000
ImageTimeout == 60000
TimeoutOf(c) ==
  IF IsSome(c.timeout_ms) THEN Val(c.timeout_ms)
  ELSE IF c.op = "chat" THEN ChatTimeout ELSE ImageTimeout

\* default of the parameter maxRetries
DefaultMaxRetries == 2
\* the fallback delay of a retry
FallbackDelay == 1000

-----------------------------------------------------------------------------
(* Transport client: postWithRetry *)

\* res.ok
IsOk(status) == status >= 200 /\ status <= 299

\* res.status === 429 || (res.status >= 500 && res.status < 600)
IsRetryable(status) == status = 429 \/ (status >= 500 /\ status < 600)

\* a variant that retries while maxRetries >= 0
ShouldRetryOnceMore(status, budget) == IsRetryable(status) /\ budget >= 0

\* the condition of the retry branch
ShouldRetry(status, budget) == IsRetryable(status) /\ budget > 0

Digits == <<"0", "1", "2", "3", "4", "5", "6", "7", "8", "9">>
IsDigit(ch) == \E d \in 1..10 : Digits[d] = ch
DigitValue(ch) == (CHOOSE d \in 1..10 : Digits[d] = ch) - 1
WhiteSpace == {" ", "\t", "\n", "\r"}

RECURSIVE TrimStart(_)
TrimStart(str) ==
  IF str /= <<>> /\ Head(str) \in WhiteSpace THEN TrimStart(Tail(str)) ELSE str
RECURSIVE TrimEnd(_)
TrimEnd(str) ==
  IF str /= <<>> /\ str[Len(str)] \in WhiteSpace
  THEN TrimEnd(SubSeq(str, 1, Len(str) - 1)) ELSE str
Trim(str) == TrimEnd(TrimStart(str))

\* the decimal digits of a number, as String(n) writes them
RECURSIVE DecimalDigits(_)
DecimalDigits(n) ==
  IF n < 10 THEN <<Digits[n + 1]>>
  ELSE DecimalDigits(n \div 10) \o <<Digits[(n % 10) + 1]>>

RECURSIVE DecimalValue(_)
DecimalValue(str) ==
  IF str = <<>> THEN 0
  ELSE 10 * DecimalValue(SubSeq(str, 1, Len(str) - 1)) + DigitValue(str[Len(str)])

\* Number(v) for v a string or null: null and the blank string give 0, a string of
\* decimal digits its value, any other text NaN
Number(opt) ==
  LET str == Trim(OrEmpty(opt))
  IN IF \A k \in 1..Len(str) : IsDigit(str[k])
     THEN [nan |-> FALSE, n |-> DecimalValue(str)]
     ELSE [nan |-> TRUE, n |-> 0]

\* Number(res.headers.get('retry-after')) || 1000
RetryDelay(header) ==
  IF Number(header).nan \/ Number(header).n = 0 THEN FallbackDelay ELSE Number(header).n

\* a variant whose error leaves the body text out
HttpErrorNoBody(status, text) ==
  [name |-> "Error", status |-> status, text |-> <<>>,
   message |-> <<"H", "T", "T", "P", " ">> \o DecimalDigits(status) \o <<" ", ":", " ">>]

\* new Error('HTTP ' + res.status + ' ' + res.statusText + ': ' + text); statusText is empty
HttpError(status, text) ==
  [name |-> "Error", status |-> status, text |-> text,
   message |-> <<"H", "T", "T", "P", " ">> \o DecimalDigits(status) \o <<" ", ":", " ">> \o text]
\* what fetch and the body readers reject with
AbortError == [name |-> "AbortError", status |-> 0, text |-> <<>>,
               message |->
                 <<"T", "h", "e", " ", "o", "p", "e", "r", "a", "t", "i", "o", "n",
                   " ", "w", "a", "s", " ", "a", "b", "o", "r", "t", "e", "d", ".">>]
NetworkError == [name |-> "TypeError", status |-> 0, text |-> <<>>,
                 message |->
                   <<"F", "a", "i", "l", "e", "d", " ", "t", "o", " ", "f", "e", "t",
                     "c", "h">>]
SyntaxError == [name |-> "SyntaxError", status |-> 0, text |-> <<>>,
                message |->
                  <<"U", "n", "e", "x", "p", "e", "c", "t", "e", "d", " ", "t", "o",
                    "k", "e", "n">>]

-----------------------------------------------------------------------------
(* Transport client: chatCompletion and imagesGenerate *)

\* data?.choices?.[0]?.message?.content || ''
ChatContent(data) ==
  IF ~IsSome(data) THEN <<>>
  ELSE IF ~IsSome(Val(data).choices) THEN <<>>
  ELSE IF Val(Val(data).choices) = <<>> THEN <<>>
  ELSE IF ~IsSome(Val(Val(data).choices)[1].message) THEN <<>>
  ELSE OrEmpty(Val(Val(Val(data).choices)[1].message).content)

\* a variant that returns the content as it is
ChatTextNoSentinel(data) == ChatContent(data)

\* text || EMPTY, the fixed empty-response text
ChatText(data) == IF ChatContent(data) = <<>> THEN EmptyResponse ELSE ChatContent(data)

\* the error prefix followed by err?.message || String(err)
ChatError(err) ==
  ErrorPrefix \o (IF err.message /= <<>> THEN err.message ELSE <<err.name>>)

\* data?.data?.[0]?.url
ImageUrl(data) ==
  IF ~IsSome(data) THEN None
  ELSE IF ~IsSome(Val(data).data) THEN None
  ELSE IF Val(Val(data).data) = <<>> THEN None
  ELSE Val(Val(data).data)[1].url

\* a variant whose catch clause handles the HTTP errors only
CaughtHttpOnly(err) == err.name = "Error"

\* catch (err: any) of chatCompletion and catch (e) of imagesGenerate take every error
Caught(err) == TRUE

\* the value the gateway call resolves to when postWithRetry resolves with data
OnData(c, data) == IF c.op = "chat" THEN ChatText(data) ELSE ImageUrl(data)
\* the value the gateway call resolves to when postWithRetry rejects with err
OnError(c, err) == IF c.op = "chat" THEN ChatError(err) ELSE None
\* a variant in which an unconfigured chatCompletion resolves to the empty string
OnConfigMissingEmpty(c) == IF c.op = "chat" THEN <<>> ELSE None
\* the value returned when the configuration is missing
OnConfigMissing(c) == IF c.op = "chat" THEN ConfigMessage ELSE None

-----------------------------------------------------------------------------
(* Inputs of the transport client *)

EnvBases == {None, Some(<<"/">>), Some(<<"h", "/">>)}
EnvKeys == {None, Some(<<"k">>)}
Operations == {"chat", "image"}
TimeoutOptions == {None, Some(5000)}
Statuses == {200, 299, 404, 429, 499, 500, 599}
RetryAfterHeaders == {None, Some(<<"0">>), Some(<<"5">>), Some(<<"1", "2">>), Some(<<"W", "e", "d">>)}
ErrorTexts == {<<>>, <<"b">>, <<"{", "\"", "a", "\"", ":", "1", "}">>}
\* replies of the model: words, and JSON texts of the asked and of other shapes
AnalysisReply ==
  <<"{", "\"", "c", "a", "t", "e", "g", "o", "r", "y", "\"", ":", "\"", "c", "\"", ",",
    "\"", "t", "a", "g", "s", "\"", ":", "[", "\"", "t", "\"", "]", ",", "\"", "s",
    "e", "n", "t", "i", "m", "e", "n", "t", "\"", ":", "\"", "s", "\"", "}">>
ReplyTexts ==
  {<<"T", "E", "C", "H", " ", "l", "o", "o", "k", "s", " ", "r", "i", "g", "h", "t">>,
   <<"b", "a", "n", "a", "n", "a">>,
   <<"m", "y", " ", "l", "i", "f", "e">>,
   <<"l", "i", "f", "e", " ", "t", "e", "c", "h">>,
   <<"W", "i", "s", "d", "o", "m">>,
   AnalysisReply,
   <<"{", "\"", "a", "\"", ":", "1", "}">>,
   <<"[", "]">>}
Message(content) == [message |-> Some([content |-> content])]
ChatEnvelopes ==
  {None, Some([choices |-> None]), Some([choices |-> Some(<<>>)]),
   Some([choices |-> Some(<<[message |-> None]>>)]),
   Some([choices |-> Some(<<[message |-> Some([content |-> None])]>>)]),
   Some([choices |-> Some(<<Message(Some(<<>>))>>)])}
  \cup {Some([choices |-> Some(<<Message(Some(t))>>)]) : t \in ReplyTexts}
ImageEnvelopes ==
  {None, Some([data |-> None]), Some([data |-> Some(<<>>)]),
   Some([data |-> Some(<<[url |-> None]>>)]),
   Some([data |-> Some(<<[url |-> Some(<<>>)]>>)]),
   Some([data |-> Some(<<[url |-> Some(<<"u", "1">>)]>>)])}
\* a body of an ok response: JSON text that parses to data, or text that does not parse
OkBodies(op) ==
  {[json |-> FALSE, data |-> None]} \cup
  {[json |-> TRUE, data |-> d] : d \in IF op = "chat" THEN ChatEnvelopes ELSE ImageEnvelopes}

-----------------------------------------------------------------------------
(* Actions of the transport client *)

TransportInit ==
  /\ env \in [base : EnvBases, key : EnvKeys]
  /\ call = None /\ pc = "idle" /\ maxRetries = 0 /\ timers = <<>>
  /\ attempts = <<>> /\ netCalls = 0 /\ retryAfter = None /\ delay = None
  /\ body = None /\ bodyRead = "none" /\ thrown = None /\ outcome = None
  /\ activeHistoryItem = None
  /\ editorContent = <<>>
  /\ imagePlaceholders = <<>>
  /\ requests = EmptyBag
  /\ scanned = <<>>
  /\ jsonText = <<>> /\ jsonFallback = None /\ jsonResult = None
  /\ operation = None /\ stage = "idle" /\ returned = None
  /\ selectedTopicIds = {} /\ platform = "NEWSLETTER" /\ isGenerating = FALSE
  /\ generatedContent = <<>> /\ generatedImage = <<>> /\ generatedCover = <<>>
  /\ run = [at |-> "idle", platform |-> "NEWSLETTER", initialContent |-> <<>>,
            matches |-> <<>>, processedContent |-> <<>>]
  /\ calls = <<>> /\ saved = <<>>

\* clearTimeout(timer) of the current frame: a timer that has fired stays fired
ClearTimer(ts) ==
  [k \in 1..Len(ts) |->
     IF k = Len(ts) /\ ts[k].state = "armed" THEN [ts[k] EXCEPT !.state = "cleared"] ELSE ts[k]]

\* a variant in which the calling frame keeps its timer while the recursive call runs
ArmTimerKeepingEarlier(ts, ms) == Append(ts, [state |-> "armed", ms |-> ms])

\* const timer = setTimeout(() => controller.abort(), timeoutMs) of a new frame; the
\* frame that made the recursive call returns its promise and clears its own timer
ArmTimer(ts, ms) == Append(ClearTimer(ts), [state |-> "armed", ms |-> ms])

\* postWithRetry rejects with err: every frame's finally has run, the caller's catch
\* turns the error into the call's value
Throw(err) ==
  /\ pc' = "done"
  /\ thrown' = Some(err)
  /\ outcome' = IF Caught(err) THEN Some(OnError(Val(call), err)) ELSE None

\* chatCompletion(messages, options) or imagesGenerate(prompt, opts) is called; timers
\* and netCalls are those of this call's postWithRetry
GatewayCall(c) ==
  /\ call' = Some(c)
  /\ IF NotConfigured(BASE_URL, API_KEY)
     THEN /\ pc' = "done"
          /\ outcome' = Some(OnConfigMissing(c))
          /\ UNCHANGED <<maxRetries, timers, netCalls>>
     ELSE /\ pc' = "fetch"
          /\ maxRetries' = DefaultMaxRetries
          /\ timers' = ArmTimer(<<>>, TimeoutOf(c))
          /\ netCalls' = 1
          /\ outcome' = None
  /\ attempts' = <<>> /\ retryAfter' = None /\ delay' = None
  /\ body' = None /\ bodyRead' = "none" /\ thrown' = None
  /\ env' = env

\* a caller outside the orchestrator calls the gateway
Invoke(op, timeoutOption) ==
  /\ pc = "idle"
  /\ GatewayCall([op |-> op, timeout_ms |-> timeoutOption, prompt |-> <<>>])
  /\ UNCHANGED <<rvars, jvars, ovars, gvars>>

\* fetch resolves with an ok response: return await res.json()
RespondOk(status) ==
  /\ pc = "fetch"
  /\ IsOk(status)
  /\ attempts' = Append(attempts, status)
  /\ pc' = "json"
  /\ \E b \in OkBodies(Val(call).op) : body' = Some(b)
  /\ UNCHANGED <<env, call, maxRetries, timers, netCalls, retryAfter, delay, bodyRead,
                 thrown, outcome, rvars, jvars, ovars, gvars>>

\* fetch resolves with 429 or 5xx and maxRetries > 0: wait retryAfter milliseconds
RespondRetry(status, header) ==
  /\ pc = "fetch"
  /\ ~IsOk(status)
  /\ ShouldRetry(status, maxRetries)
  /\ attempts' = Append(attempts, status)
  /\ pc' = "wait"
  /\ retryAfter' = header
  /\ delay' = Some(RetryDelay(header))
  /\ UNCHANGED <<env, call, maxRetries, timers, netCalls, body, bodyRead, thrown, outcome,
                 rvars, jvars, ovars, gvars>>

\* fetch resolves with any other response: await res.text()
RespondError(status, text) ==
  /\ pc = "fetch"
  /\ ~IsOk(status)
  /\ ~ShouldRetry(status, maxRetries)
  /\ attempts' = Append(attempts, status)
  /\ pc' = "text"
  /\ body' = Some(text)
  /\ UNCHANGED <<env, call, maxRetries, timers, netCalls, retryAfter, delay, bodyRead,
                 thrown, outcome, rvars, jvars, ovars, gvars>>

\* fetch rejects (network failure)
FetchRejects ==
  /\ pc = "fetch"
  /\ attempts' = Append(attempts, 0)
  /\ timers' = ClearTimer(timers)
  /\ Throw(NetworkError)
  /\ UNCHANGED <<env, call, maxRetries, netCalls, retryAfter, delay, body, bodyRead,
                 rvars, jvars, ovars, gvars>>

\* the body arrives: res.json() resolves or rejects with a SyntaxError, res.text() resolves
ReadBody ==
  /\ pc \in {"json", "text"}
  /\ bodyRead' = "ok"
  /\ timers' = ClearTimer(timers)
  /\ IF pc = "text" THEN Throw(HttpError(attempts[Len(attempts)], Val(body)))
     ELSE IF ~Val(body).json THEN Throw(SyntaxError)
     ELSE /\ pc' = "done"
          /\ outcome' = Some(OnData(Val(call), Val(body).data))
          /\ thrown' = thrown
  /\ UNCHANGED <<env, call, maxRetries, attempts, netCalls, retryAfter, delay, body,
                 rvars, jvars, ovars, gvars>>

\* reading the body fails: res.json() rejects, res.text().catch(() => '') gives ''
BodyFails ==
  /\ pc \in {"json", "text"}
  /\ bodyRead' = "failed"
  /\ timers' = ClearTimer(timers)
  /\ IF pc = "text" THEN Throw(HttpError(attempts[Len(attempts)], <<>>))
     ELSE Throw(NetworkError)
  /\ UNCHANGED <<env, call, maxRetries, attempts, netCalls, retryAfter, delay, body,
                 rvars, jvars, ovars, gvars>>

\* a variant in which the abort rejects nothing
AbortRejectsNothing(at) == FALSE
\* a variant in which the abort reaches only the pending fetch
AbortRejectsFetchOnly(at) == at = "fetch"

\* the states in which controller.abort() rejects the pending fetch or body read
AbortRejects(at) == at \in {"fetch", "json", "text"}

\* the timer of the current frame fires: controller.abort()
TimerFires ==
  /\ pc \in {"fetch", "json", "text", "wait"}
  /\ timers[Len(timers)].state = "armed"
  /\ timers' = [timers EXCEPT ![Len(timers)].state = "fired"]
  /\ IF ~AbortRejects(pc) THEN UNCHANGED <<pc, thrown, outcome>>
     ELSE IF pc = "text" THEN Throw(HttpError(attempts[Len(attempts)], <<>>))
     ELSE Throw(AbortError)
  /\ attempts' = IF pc = "fetch" THEN Append(attempts, 0) ELSE attempts
  /\ bodyRead' = IF pc \in {"json", "text"} THEN "failed" ELSE bodyRead
  /\ UNCHANGED <<env, call, maxRetries, netCalls, retryAfter, delay, body, rvars, jvars, ovars, gvars>>

\* the backoff wait ends: return postWithRetry(url, body, headers, timeoutMs, maxRetries - 1)
BackoffElapsed ==
  /\ pc = "wait"
  /\ pc' = "fetch"
  /\ maxRetries' = maxRetries - 1
  /\ timers' = ArmTimer(timers, timers[Len(timers)].ms)
  /\ netCalls' = netCalls + 1
  /\ UNCHANGED <<env, call, attempts, retryAfter, delay, body, bodyRead, thrown, outcome,
                 rvars, jvars, ovars, gvars>>

TransportNext ==
  \/ \E op \in Operations, t \in TimeoutOptions : Invoke(op, t)
  \/ \E st \in Statuses : RespondOk(st)
  \/ \E st \in Statuses, h \in RetryAfterHeaders : RespondRetry(st, h)
  \/ \E st \in Statuses, t \in ErrorTexts : RespondError(st, t)
  \/ FetchRejects
  \/ ReadBody
  \/ BodyFails
  \/ TimerFires
  \/ BackoffElapsed

TransportSpec == TransportInit /\ [][TransportNext]_vars

\* setTimeout callbacks always run: the timer of a pending attempt and the backoff wait
TransportFairSpec ==
  TransportSpec /\ WF_vars(TimerFires) /\ WF_vars(BackoffElapsed)

-----------------------------------------------------------------------------
(* Decoder: JSON.parse *)

\* A parsed JSON value is represented by its text without insignificant white space.
\* Numbers are integers without fraction or exponent, strings have no escapes, and
\* no object repeats a key: the input alphabet below forms no other.
JsonFail == [ok |-> FALSE, value |-> <<>>, next |-> 0]
JsonOk(value, next) == [ok |-> TRUE, value |-> value, next |-> next]

RECURSIVE SkipWhiteSpace(_, _)
SkipWhiteSpace(s, i) ==
  IF i <= Len(s) /\ s[i] \in WhiteSpace THEN SkipWhiteSpace(s, i + 1) ELSE i

\* a string token opening at i: up to the next quote, no control character inside
ParseString(s, i) ==
  LET j == IndexOf(s, <<"\"">>, i + 1)
  IN IF j = 0 \/ \E k \in (i + 1)..(j - 1) : s[k] \in {"\n", "\r", "\t", "\\"}
     THEN JsonFail
     ELSE JsonOk(SubSeq(s, i, j), j + 1)

RECURSIVE DigitsEnd(_, _)
DigitsEnd(s, i) == IF i <= Len(s) /\ IsDigit(s[i]) THEN DigitsEnd(s, i + 1) ELSE i

\* a number token opening at i: -?(0|[1-9][0-9]*)
ParseNumber(s, i) ==
  LET d == IF s[i] = "-" THEN i + 1 ELSE i
  IN IF d > Len(s) \/ ~IsDigit(s[d]) THEN JsonFail
     ELSE IF s[d] = "0" THEN JsonOk(SubSeq(s, i, d), d + 1)
     ELSE JsonOk(SubSeq(s, i, DigitsEnd(s, d) - 1), DigitsEnd(s, d))

JsonLiterals == {<<"t", "r", "u", "e">>, <<"f", "a", "l", "s", "e">>, <<"n", "u", "l", "l">>}

RECURSIVE ParseValue(_, _)
RECURSIVE ParseMembers(_, _, _)
RECURSIVE ParseElements(_, _, _)
ParseValue(s, from) ==
  LET i == SkipWhiteSpace(s, from)
      j == SkipWhiteSpace(s, i + 1)
  IN IF i > Len(s) THEN JsonFail
     ELSE IF s[i] = "{"
       THEN IF j <= Len(s) /\ s[j] = "}" THEN JsonOk(<<"{", "}">>, j + 1)
            ELSE ParseMembers(s, j, <<"{">>)
     ELSE IF s[i] = "["
       THEN IF j <= Len(s) /\ s[j] = "]" THEN JsonOk(<<"[", "]">>, j + 1)
            ELSE ParseElements(s, j, <<"[">>)
     ELSE IF s[i] = "\"" THEN ParseString(s, i)
     ELSE IF s[i] = "-" \/ IsDigit(s[i]) THEN ParseNumber(s, i)
     ELSE IF \E l \in JsonLiterals : StartsWithAt(s, l, i)
       THEN LET l == CHOOSE l \in JsonLiterals : StartsWithAt(s, l, i)
            IN JsonOk(l, i + Len(l))
     ELSE JsonFail

\* the members of an object after "{" or ",": "key" : value, then "," or "}"
ParseMembers(s, from, acc) ==
  LET i == SkipWhiteSpace(s, from)
      key == IF i <= Len(s) /\ s[i] = "\"" THEN ParseString(s, i) ELSE JsonFail
      c == SkipWhiteSpace(s, key.next)
      v == IF key.ok /\ c <= Len(s) /\ s[c] = ":" THEN ParseValue(s, c + 1) ELSE JsonFail
      d == SkipWhiteSpace(s, v.next)
      member == acc \o key.value \o <<":">> \o v.value
  IN IF ~v.ok \/ d > Len(s) THEN JsonFail
     ELSE IF s[d] = "}" THEN JsonOk(member \o <<"}">>, d + 1)
     ELSE IF s[d] = "," THEN ParseMembers(s, d + 1, member \o <<",">>)
     ELSE JsonFail

\* the elements of an array after "[" or ",": value, then "," or "]"
ParseElements(s, from, acc) ==
  LET v == ParseValue(s, from)
      d == SkipWhiteSpace(s, v.next)
      element == acc \o v.value
  IN IF ~v.ok \/ d > Len(s) THEN JsonFail
     ELSE IF s[d] = "]" THEN JsonOk(element \o <<"]">>, d + 1)
     ELSE IF s[d] = "," THEN ParseElements(s, d + 1, element \o <<",">>)
     ELSE JsonFail

\* JSON.parse(str): one value surrounded by white space, else a SyntaxError (ok = FALSE)
JSONParse(str) ==
  LET r == ParseValue(str, 1)
  IN IF r.ok /\ SkipWhiteSpace(str, r.next) > Len(str)
     THEN [ok |-> TRUE, value |-> r.value]
     ELSE [ok |-> FALSE, value |-> <<>>]

-----------------------------------------------------------------------------
(* Decoder: safeJSON *)

FenceMark == <<GraveAccent, GraveAccent, GraveAccent>>

\* s.match(/FENCE(?:json)?\s*([\s\S]*?)FENCE/): group 1 of the leftmost match at or after
\* from.  At an opening mark the optional "json" and the white space are taken
\* greedily and the content lazily up to the next mark; giving either back exposes
\* no further mark, so an opening mark without a later mark does not match.
RECURSIVE CodeBlockMatch(_, _)
CodeBlockMatch(s, from) ==
  LET p == IndexOf(s, FenceMark, from)
      q == IF StartsWithAt(s, <<"j", "s", "o", "n">>, p + 3) THEN p + 7 ELSE p + 3
      w == SkipWhiteSpace(s, q)
      c == IndexOf(s, FenceMark, w)
  IN IF p = 0 THEN None
     ELSE IF c /= 0 THEN Some(SubSeq(s, w, c - 1))
     ELSE CodeBlockMatch(s, p + 1)

LastIndexOf(s, ch) ==
  IF \E k \in 1..Len(s) : s[k] = ch
  THEN CHOOSE k \in 1..Len(s) : s[k] = ch /\ \A j \in (k + 1)..Len(s) : s[j] /= ch
  ELSE 0

\* s.match(/\{[\s\S]*\}/): from the first "{" to the last "}" after it
JsonMatch(s) ==
  LET first == IndexOf(s, <<"{">>, 1)
      last == LastIndexOf(s, "}")
  IN IF first /= 0 /\ last > first THEN Some(SubSeq(s, first, last)) ELSE None

Returned(value) == [returned |-> "parsed", value |-> value]
ReturnedFallback(fallback) == [returned |-> "fallback", value |-> fallback]

\* a variant without the catch: the SyntaxError of JSON.parse leaves safeJSON
ParseOrThrow(str, fallback) ==
  IF JSONParse(str).ok THEN Returned(JSONParse(str).value)
  ELSE [returned |-> "thrown", value |-> <<>>]

\* return JSON.parse(str) inside try { ... } catch { return fallback }
ParseOrFallback(str, fallback) ==
  IF JSONParse(str).ok THEN Returned(JSONParse(str).value) ELSE ReturnedFallback(fallback)

safeJSON(s, fallback) ==
  LET codeBlockMatch == CodeBlockMatch(s, 1)
      trimmed == Trim(s)
      jsonMatch == JsonMatch(s)
  IN IF IsSome(codeBlockMatch) THEN ParseOrFallback(Trim(Val(codeBlockMatch)), fallback)
     ELSE IF StartsWithAt(trimmed, <<"{">>, 1) \/ StartsWithAt(trimmed, <<"[">>, 1)
       THEN ParseOrFallback(trimmed, fallback)
     ELSE IF IsSome(jsonMatch) THEN ParseOrFallback(Val(jsonMatch), fallback)
     ELSE ReturnedFallback(fallback)

-----------------------------------------------------------------------------
(* Inputs and actions of the decoder *)

JsonObject == <<"{", "\"", "a", "\"", ":", "1", "}">>
JsonTokens ==
  {FenceMark, FenceMark \o <<"j", "s", "o", "n">>, JsonObject,
   <<"{">>, <<"}">>, <<"[">>, <<"]">>, <<" ">>, <<"n">>}

RECURSIVE TextsOfLen(_)
TextsOfLen(n) ==
  IF n = 0 THEN {<<>>}
  ELSE {t \o k : t \in TextsOfLen(n - 1), k \in JsonTokens}

Texts == UNION {TextsOfLen(n) : n \in 0..MaxTokens}

\* fallback values of the type T of the caller: an object, a list
Fallbacks == {<<"{", "}">>, <<"[", "]">>}

JsonInit ==
  /\ jsonText \in Texts
  /\ jsonFallback \in Fallbacks
  /\ jsonResult = None
  /\ activeHistoryItem = None
  /\ editorContent = <<>>
  /\ imagePlaceholders = <<>>
  /\ requests = EmptyBag
  /\ scanned = <<>>
  /\ env = [base |-> None, key |-> None]
  /\ call = None /\ pc = "idle" /\ maxRetries = 0 /\ timers = <<>>
  /\ attempts = <<>> /\ netCalls = 0 /\ retryAfter = None /\ delay = None
  /\ body = None /\ bodyRead = "none" /\ thrown = None /\ outcome = None
  /\ operation = None /\ stage = "idle" /\ returned = None
  /\ selectedTopicIds = {} /\ platform = "NEWSLETTER" /\ isGenerating = FALSE
  /\ generatedContent = <<>> /\ generatedImage = <<>> /\ generatedCover = <<>>
  /\ run = [at |-> "idle", platform |-> "NEWSLETTER", initialContent |-> <<>>,
            matches |-> <<>>, processedContent |-> <<>>]
  /\ calls = <<>> /\ saved = <<>>

\* a caller applies safeJSON to the reply text
Decode ==
  /\ jsonResult = None
  /\ jsonResult' = Some(safeJSON(jsonText, jsonFallback))
  /\ UNCHANGED <<jsonText, jsonFallback, rvars, tvars, ovars, gvars>>

JsonNext == Decode

JsonSpec == JsonInit /\ [][JsonNext]_vars

-----------------------------------------------------------------------------
(* Orchestrator: the operations of services/geminiService.ts *)

LowerCase ==
  <<"a", "b", "c", "d", "e", "f", "g", "h", "i", "j", "k", "l", "m",
    "n", "o", "p", "q", "r", "s", "t", "u", "v", "w", "x", "y", "z">>
UpperCase ==
  <<"A", "B", "C", "D", "E", "F", "G", "H", "I", "J", "K", "L", "M",
    "N", "O", "P", "Q", "R", "S", "T", "U", "V", "W", "X", "Y", "Z">>

\* str.toUpperCase()
ToUpperCase(str) ==
  [k \in 1..Len(str) |->
     IF \E l \in 1..26 : LowerCase[l] = str[k]
     THEN UpperCase[CHOOSE l \in 1..26 : LowerCase[l] = str[k]]
     ELSE str[k]]

\* str.includes(pat)
Includes(str, pat) == IndexOf(str, pat, 1) /= 0

\* str.replace(/[\s\n]+/g, '')
RECURSIVE RemoveWhiteSpace(_)
RemoveWhiteSpace(str) ==
  IF str = <<>> THEN <<>>
  ELSE IF Head(str) \in WhiteSpace THEN RemoveWhiteSpace(Tail(str))
  ELSE <<Head(str)>> \o RemoveWhiteSpace(Tail(str))

\* str.slice(0, n)
Slice(str, n) == SubSeq(str, 1, IF Len(str) < n THEN Len(str) ELSE n)

\* reply || text
OrText(reply, text) == IF reply = <<>> THEN text ELSE reply

\* The fixed values of the operations; objects are written as their JSON text.
AnalysisDefault ==
  <<"{", "\"", "c", "a", "t", "e", "g", "o", "r", "y", "\"", ":", "\"", "w", "f", "l",
    "\"", ",", "\"", "t", "a", "g", "s", "\"", ":", "[", "\"", "d", "c", "l", "\"",
    "]", ",", "\"", "s", "e", "n", "t", "i", "m", "e", "n", "t", "\"", ":", "\"", "z",
    "x", "\"", "}">>
AnalysisFallback ==
  <<"{", "\"", "c", "a", "t", "e", "g", "o", "r", "y", "\"", ":", "\"", "c", "g", "\"",
    ",", "\"", "t", "a", "g", "s", "\"", ":", "[", "\"", "r", "g", "f", "h", "\"", "]",
    ",", "\"", "s", "e", "n", "t", "i", "m", "e", "n", "t", "\"", ":", "\"", "z", "x",
    "\"", "}">>
UntitledStack == <<"w", "m", "m", "k", "p", "z">>
NewStackTitle == <<"x", "d", "b", "j", "z">>
NoNotesText == <<"m", "y", "k", "y", "d", "b", "j", "j", "x", "f", "x", ".">>
NoInsightText == <<"w", "f", "s", "c", "d", "c", ".">>
TitleLength == 20
TECH == <<"T", "E", "C", "H">>
LIFE == <<"L", "I", "F", "E">>
WISDOM == <<"W", "I", "S", "D", "O", "M">>
GENERAL == <<"G", "E", "N", "E", "R", "A", "L">>

\* return safeJSON(reply, fallback)
AnalysisOf(reply) == safeJSON(reply, AnalysisFallback).value

\* (reply || NEW).replace(/[\s\n]+/g, '').slice(0, 20)
TitleOf(reply) == Slice(RemoveWhiteSpace(OrText(reply, NewStackTitle)), TitleLength)

\* a variant that matches the reply as it is, without toUpperCase()
CategoryOfCaseSensitive(reply) ==
  IF Includes(reply, TECH) THEN TECH
  ELSE IF Includes(reply, LIFE) THEN LIFE
  ELSE IF Includes(reply, WISDOM) THEN WISDOM
  ELSE GENERAL

\* the chain of reply.includes(...) tests on the upper-cased reply
CategoryOf(reply) ==
  IF Includes(ToUpperCase(reply), TECH) THEN TECH
  ELSE IF Includes(ToUpperCase(reply), LIFE) THEN LIFE
  ELSE IF Includes(ToUpperCase(reply), WISDOM) THEN WISDOM
  ELSE GENERAL

\* return reply || NOINSIGHT
InsightsOf(reply) == OrText(reply, NoInsightText)

ChatOperations ==
  {"analyzeNoteContent", "generateStackTitle", "determineStackCategory", "generateInsights"}
ImageOperations == {"generateSocialImage", "generateInContextImage", "generateCoverImage"}
OperationNames == ChatOperations \cup ImageOperations
\* whether the operation got input: text or image for the analysis, notes for the others
InputsOf(name) == IF name \in ChatOperations THEN {"empty", "given"} ELSE {"given"}

\* a variant in which only the analysis returns early on missing input
ShortCircuitsAnalysisOnly(name, input) == name = "analyzeNoteContent" /\ input = "empty"

\* if (!text && !imageBase64) return ..., if (!notes.length) return ...
ShortCircuits(name, input) == name \in ChatOperations /\ input = "empty"

\* the value returned on missing input
DefaultOf(name) ==
  IF name = "analyzeNoteContent" THEN AnalysisDefault
  ELSE IF name = "generateStackTitle" THEN UntitledStack
  ELSE IF name = "determineStackCategory" THEN GENERAL
  ELSE NoNotesText

\* the gateway call the operation makes first
FirstCall(name) ==
  IF name \in ChatOperations \/ name = "generateSocialImage" THEN "chat" ELSE "image"

\* the value the operation returns from the value of its last gateway call
ValueOf(name, out) ==
  IF name = "analyzeNoteContent" THEN AnalysisOf(out)
  ELSE IF name = "generateStackTitle" THEN TitleOf(out)
  ELSE IF name = "determineStackCategory" THEN CategoryOf(out)
  ELSE IF name = "generateInsights" THEN InsightsOf(out)
  ELSE out

\* the texts the image operations are called with
InContextPrompt == <<"x">>
CoverTitle == <<"T">>
DefaultSocialPrompt == <<"abstract architectural composition, minimalist black and white">>
StyleSuffix == <<", minimalist vector art, high contrast, black and white">>
\* promptGen || 'abstract architectural composition, minimalist black and white'
SocialPrompt(promptGen) == OrText(promptGen, DefaultSocialPrompt)
\* prompt + styleSuffix
StyledPrompt(prompt) == prompt \o StyleSuffix
\* the template literal of generateCoverImage
CoverPrompt(title) ==
  <<"Create a visually striking, minimalist cover image for a blog post titled \"">>
  \o title
  \o <<"\". Style: Digital Brutalism, black and white, high contrast, architectural.">>

\* the prompt of the first gateway call when it is imagesGenerate; the chat messages
\* of the operations are not modelled
FirstPrompt(name) ==
  IF name = "generateInContextImage" THEN StyledPrompt(InContextPrompt)
  ELSE IF name = "generateCoverImage" THEN CoverPrompt(CoverTitle)
  ELSE <<>>

Resolved(value) == [settled |-> "resolved", value |-> value]
Rejected == [settled |-> "rejected", value |-> <<>>]

OrchestratorInit ==
  /\ env \in [base : EnvBases, key : EnvKeys]
  /\ call = None /\ pc = "idle" /\ maxRetries = 0 /\ timers = <<>>
  /\ attempts = <<>> /\ netCalls = 0 /\ retryAfter = None /\ delay = None
  /\ body = None /\ bodyRead = "none" /\ thrown = None /\ outcome = None
  /\ activeHistoryItem = None
  /\ editorContent = <<>>
  /\ imagePlaceholders = <<>>
  /\ requests = EmptyBag
  /\ scanned = <<>>
  /\ jsonText = <<>> /\ jsonFallback = None /\ jsonResult = None
  /\ operation = None /\ stage = "idle" /\ returned = None
  /\ selectedTopicIds = {} /\ platform = "NEWSLETTER" /\ isGenerating = FALSE
  /\ generatedContent = <<>> /\ generatedImage = <<>> /\ generatedCover = <<>>
  /\ run = [at |-> "idle", platform |-> "NEWSLETTER", initialContent |-> <<>>,
            matches |-> <<>>, processedContent |-> <<>>]
  /\ calls = <<>> /\ saved = <<>>

\* the UI calls an operation: it returns its default, or awaits its first gateway call
Call(name, input) ==
  /\ stage = "idle"
  /\ operation' = Some([name |-> name, input |-> input])
  /\ IF ShortCircuits(name, input)
     THEN /\ stage' = "returned"
          /\ returned' = Some(Resolved(DefaultOf(name)))
          /\ UNCHANGED tvars
     ELSE /\ stage' = FirstCall(name)
          /\ returned' = returned
          /\ GatewayCall([op |-> FirstCall(name), timeout_ms |-> None,
                          prompt |-> FirstPrompt(name)])
  /\ UNCHANGED <<rvars, jvars, gvars>>

\* the awaited gateway call has settled: the operation returns, or, in
\* generateSocialImage, goes on to imagesGenerate with the prompt
Return ==
  /\ stage \in {"chat", "image"}
  /\ pc = "done"
  /\ IF ~IsSome(outcome)
     THEN /\ stage' = "returned"
          /\ returned' = Some(Rejected)
          /\ UNCHANGED tvars
     ELSE IF Val(operation).name = "generateSocialImage" /\ stage = "chat"
     THEN /\ stage' = "image"
          /\ returned' = returned
          /\ GatewayCall([op |-> "image", timeout_ms |-> None,
                          prompt |-> SocialPrompt(Val(outcome))])
     ELSE /\ stage' = "returned"
          /\ returned' = Some(Resolved(ValueOf(Val(operation).name, Val(outcome))))
          /\ UNCHANGED tvars
  /\ UNCHANGED <<operation, rvars, jvars, gvars>>

OrchestratorNext ==
  \/ \E name \in OperationNames : \E input \in InputsOf(name) : Call(name, input)
  \/ Return
  \/ \E st \in Statuses : RespondOk(st)
  \/ \E st \in Statuses, h \in RetryAfterHeaders : RespondRetry(st, h)
  \/ \E st \in Statuses, t \in ErrorTexts : RespondError(st, t)
  \/ FetchRejects
  \/ ReadBody
  \/ BodyFails
  \/ TimerFires
  \/ BackoffElapsed

OrchestratorSpec == OrchestratorInit /\ [][OrchestratorNext]_vars

-----------------------------------------------------------------------------
(* Resolution of a placeholder: from the effect's call to the entry's final state *)

ResolutionInit ==
  /\ env \in [base : EnvBases, key : EnvKeys]
  /\ call = None /\ pc = "idle" /\ maxRetries = 0 /\ timers = <<>>
  /\ attempts = <<>> /\ netCalls = 0 /\ retryAfter = None /\ delay = None
  /\ body = None /\ bodyRead = "none" /\ thrown = None /\ outcome = None
  /\ activeHistoryItem = Some("h1")
  /\ editorContent = <<>>
  /\ imagePlaceholders = <<>>
  /\ requests = EmptyBag
  /\ scanned = <<>>
  /\ jsonText = <<>> /\ jsonFallback = None /\ jsonResult = None
  /\ operation = None /\ stage = "idle" /\ returned = None
  /\ selectedTopicIds = {} /\ platform = "NEWSLETTER" /\ isGenerating = FALSE
  /\ generatedContent = <<>> /\ generatedImage = <<>> /\ generatedCover = <<>>
  /\ run = [at |-> "idle", platform |-> "NEWSLETTER", initialContent |-> <<>>,
            matches |-> <<>>, processedContent |-> <<>>]
  /\ calls = <<>> /\ saved = <<>>

\* the effect finds the token of an untracked prompt: the entry becomes LOADING and
\* generateInContextImage(prompt) calls imagesGenerate.  One gateway call is followed
\* at a time: the next request starts when the previous one has been settled.
RequestImage(prompt) ==
  /\ stage \in {"idle", "returned"}
  /\ requests = EmptyBag
  /\ NotProcessed(imagePlaceholders, prompt)
  /\ imagePlaceholders' = Put(imagePlaceholders, prompt, Loading)
  /\ requests' = requests (+) SetToBag({prompt})
  /\ operation' = Some([name |-> "generateInContextImage", input |-> "given"])
  /\ stage' = "image"
  /\ returned' = None
  /\ GatewayCall([op |-> "image", timeout_ms |-> None, prompt |-> StyledPrompt(prompt)])
  /\ UNCHANGED <<activeHistoryItem, editorContent, scanned, jvars, gvars>>

\* the promise of generateInContextImage has settled: .then(url => ...) or .catch(...)
SettleImage ==
  /\ stage = "returned"
  /\ \E prompt \in BagToSet(requests) :
        CompleteRequest(prompt, IF Val(returned).settled = "resolved"
                                THEN Val(returned).value ELSE None)

ResolutionNext ==
  \/ \E prompt \in {Prompt1, Prompt2} : RequestImage(prompt)
  \/ Return
  \/ SettleImage
  \/ \E st \in Statuses : RespondOk(st)
  \/ \E st \in Statuses, h \in RetryAfterHeaders : RespondRetry(st, h)
  \/ \E st \in Statuses, t \in ErrorTexts : RespondError(st, t)
  \/ FetchRejects
  \/ ReadBody
  \/ BodyFails
  \/ TimerFires
  \/ BackoffElapsed

ResolutionSpec == ResolutionInit /\ [][ResolutionNext]_vars

\* setTimeout callbacks and promise reactions always run; no response is assumed to
\* arrive: an attempt that gets none ends when its timer fires
ResolutionFairSpec ==
  /\ ResolutionSpec
  /\ WF_vars(TimerFires) /\ WF_vars(BackoffElapsed)
  /\ WF_vars(Return) /\ WF_vars(SettleImage)

-----------------------------------------------------------------------------
(* Insight view: handleGenerate and processInContextImages *)

NEWSLETTER == "NEWSLETTER"
SOCIAL_MEDIA == "SOCIAL_MEDIA"
Platforms == {NEWSLETTER, SOCIAL_MEDIA}
TopicIds == {"t1", "t2"}

GeneratingImage == <<"\n", "![Generating image...]()", "\n">>
FailedImage == <<"\n", "*Failed to generate image.*", "\n">>

\* content.replace(imageRegex, "\n![Generating image...]()\n") with the global regex
RECURSIVE ReplaceAllTokens(_, _, _)
ReplaceAllTokens(content, from, repl) ==
  LET m == RegexExec(content, from)
  IN IF m.at = 0 THEN SubSeq(content, from, Len(content))
     ELSE SubSeq(content, from, m.at - 1) \o repl \o ReplaceAllTokens(content, m.next, repl)

\* prompt.replace(/[\[\]]/g, '')
StripBrackets(prompt) == SelectSeq(prompt, LAMBDA ch : ch \notin {"[", "]"})

\* imageUrl ? the template literal \n![...](${imageUrl})\n : "\n*Failed to generate image.*\n"
InlineImage(prompt, imageUrl) ==
  IF IsSome(imageUrl) /\ Val(imageUrl) /= <<>>
  THEN <<"\n", "![">> \o StripBrackets(prompt) \o <<"](">> \o Val(imageUrl) \o <<")", "\n">>
  ELSE FailedImage

\* remainingMatches.forEach(m => tempContent = tempContent.replace(m[0], loading))
RECURSIVE KeepLoading(_, _)
KeepLoading(tempContent, remaining) ==
  IF remaining = <<>> THEN tempContent
  ELSE KeepLoading(ReplaceFirst(tempContent, Placeholder(Head(remaining)), GeneratingImage),
                   Tail(remaining))

\* finalContent.match(/^#\s+(.*)/m): the optional capture group 1 of the leftmost match
TitleMatch(content) ==
  LET starts == {i \in 1..(Len(content) - 1) :
                   /\ i = 1 \/ content[i - 1] \in LineTerminators
                   /\ content[i] = "#"
                   /\ content[i + 1] \in WhiteSpace}
  IN IF starts = {} THEN None
     ELSE LET i == CHOOSE k \in starts : \A j \in starts : k <= j
              rest == {k \in (i + 1)..Len(content) : content[k] \notin WhiteSpace}
              b == IF rest = {} THEN Len(content) + 1
                   ELSE CHOOSE k \in rest : \A j \in rest : k <= j
              ends == {k \in b..Len(content) : content[k] \in LineTerminators}
              e == IF ends = {} THEN Len(content) + 1
                   ELSE CHOOSE k \in ends : \A j \in ends : k <= j
          IN Some(SubSeq(content, b, e - 1))

\* titleMatch && titleMatch[1]
HasTitle(content) == IsSome(TitleMatch(content)) /\ Val(TitleMatch(content)) /= <<>>

\* what generateInsights resolves to: a document with tokens, with or without a
\* heading, or the text returned when the model gave nothing
InsightTexts == (Docs \ {<<>>}) \cup BodiesOfLen(1) \cup {NoInsightText}

Idle == [at |-> "idle", platform |-> NEWSLETTER, initialContent |-> <<>>,
         matches |-> <<>>, processedContent |-> <<>>]
Issue(cs, name, arg) == Append(cs, [name |-> name, arg |-> arg, settled |-> FALSE])
Settle(cs) == [cs EXCEPT ![Len(cs)].settled = TRUE]

InsightInit ==
  /\ selectedTopicIds = {} /\ platform = "NEWSLETTER" /\ isGenerating = FALSE
  /\ generatedContent = <<>> /\ generatedImage = <<>> /\ generatedCover = <<>>
  /\ run = [at |-> "idle", platform |-> "NEWSLETTER", initialContent |-> <<>>,
            matches |-> <<>>, processedContent |-> <<>>]
  /\ calls = <<>> /\ saved = <<>>
  /\ activeHistoryItem = None
  /\ editorContent = <<>>
  /\ imagePlaceholders = <<>>
  /\ requests = EmptyBag
  /\ scanned = <<>>
  /\ env = [base |-> <<>>, key |-> <<>>]
  /\ call = None /\ pc = "idle" /\ maxRetries = 0 /\ timers = <<>>
  /\ attempts = <<>> /\ netCalls = 0 /\ retryAfter = None /\ delay = None
  /\ body = None /\ bodyRead = "none" /\ thrown = None /\ outcome = None
  /\ jsonText = <<>> /\ jsonFallback = None /\ jsonResult = None
  /\ operation = None /\ stage = "idle" /\ returned = None

\* the effect that selects every topic when none is selected
AutoSelectTopics ==
  /\ selectedTopicIds = {}
  /\ selectedTopicIds' = TopicIds
  /\ UNCHANGED <<platform, isGenerating, generatedContent, generatedImage, generatedCover,
                 run, calls, saved, rvars, tvars, jvars, ovars>>

\* handleToggleTopic(id), from the selection view
ToggleTopic(id) ==
  /\ generatedContent = <<>> /\ ~isGenerating
  /\ selectedTopicIds' = IF id \in selectedTopicIds THEN selectedTopicIds \ {id}
                         ELSE selectedTopicIds \cup {id}
  /\ UNCHANGED <<platform, isGenerating, generatedContent, generatedImage, generatedCover,
                 run, calls, saved, rvars, tvars, jvars, ovars>>

\* the platform buttons of the header, shown while generatedContent is empty
ChoosePlatform(p) ==
  /\ generatedContent = <<>>
  /\ platform' = p
  /\ UNCHANGED <<selectedTopicIds, isGenerating, generatedContent, generatedImage,
                 generatedCover, run, calls, saved, rvars, tvars, jvars, ovars>>

\* the button of the result view: setGeneratedContent('')
BackToTopics ==
  /\ generatedContent /= <<>> /\ ~isGenerating
  /\ generatedContent' = <<>>
  /\ UNCHANGED <<selectedTopicIds, platform, isGenerating, generatedImage, generatedCover,
                 run, calls, saved, rvars, tvars, jvars, ovars>>

\* handleGenerate up to its first await; the button is shown in the selection view
\* and disabled while nothing is selected
Generate ==
  /\ generatedContent = <<>> /\ ~isGenerating
  /\ selectedTopicIds /= {}
  /\ isGenerating' = TRUE
  /\ generatedContent' = <<>> /\ generatedImage' = None /\ generatedCover' = None
  /\ run' = [Idle EXCEPT !.at = "generateInsights", !.platform = platform]
  /\ calls' = Issue(<<>>, "generateInsights", <<>>)
  /\ saved' = <<>>
  /\ UNCHANGED <<selectedTopicIds, platform, rvars, tvars, jvars, ovars>>

\* onSaveToHistory({ content: finalContent, ... }); setIsGenerating(false)
SaveToHistory(content, url) ==
  /\ saved' = Append(saved, [content |-> content, platform |-> run.platform,
                             generatedImageUrl |-> url])
  /\ isGenerating' = FALSE

\* a variant that saves without waiting for the cover
AfterImagesNoCover(r, cs) ==
  /\ run' = [r EXCEPT !.at = "idle"]
  /\ calls' = cs
  /\ SaveToHistory(r.processedContent, None)

\* handleGenerate after processInContextImages returned r.processedContent: the cover
\* is requested when the text has a title, else the item is saved
AfterImages(r, cs) ==
  IF HasTitle(r.processedContent)
  THEN /\ run' = [r EXCEPT !.at = "generateCoverImage"]
       /\ calls' = Issue(cs, "generateCoverImage", Val(TitleMatch(r.processedContent)))
       /\ UNCHANGED <<saved, isGenerating>>
  ELSE /\ run' = [r EXCEPT !.at = "idle"]
       /\ calls' = cs
       /\ SaveToHistory(r.processedContent, None)

\* generateInsights resolves to text: the social image is requested, or
\* processInContextImages runs up to its first await (or returns at once)
InsightsReturn(text) ==
  /\ run.at = "generateInsights"
  /\ IF run.platform = SOCIAL_MEDIA
     THEN /\ generatedContent' = text
          /\ run' = [run EXCEPT !.at = "generateSocialImage", !.initialContent = text,
                                !.processedContent = text]
          /\ calls' = Issue(Settle(calls), "generateSocialImage", text)
          /\ UNCHANGED <<saved, isGenerating>>
     ELSE IF MatchAll(text, 1) = <<>>
     THEN /\ generatedContent' = text
          /\ AfterImages([run EXCEPT !.initialContent = text, !.processedContent = text],
                         Settle(calls))
     ELSE /\ generatedContent' = ReplaceAllTokens(text, 1, GeneratingImage)
          /\ run' = [run EXCEPT !.at = "generateInContextImage", !.initialContent = text,
                                !.matches = MatchAll(text, 1), !.processedContent = text]
          /\ calls' = Issue(Settle(calls), "generateInContextImage", Head(MatchAll(text, 1)))
          /\ UNCHANGED <<saved, isGenerating>>
  /\ UNCHANGED <<selectedTopicIds, platform, generatedImage, generatedCover,
                 rvars, tvars, jvars, ovars>>

\* the awaited generateInContextImage(prompt) resolves: one turn of the for loop, then
\* the next call, or the return of processInContextImages
InContextReturn(imageUrl) ==
  /\ run.at = "generateInContextImage"
  /\ LET prompt == Head(run.matches)
         processed == ReplaceFirst(run.processedContent, Placeholder(prompt),
                                   InlineImage(prompt, imageUrl))
         r == [run EXCEPT !.matches = Tail(run.matches), !.processedContent = processed]
     IN /\ generatedContent' = KeepLoading(processed, MatchAll(processed, 1))
        /\ IF r.matches = <<>> THEN AfterImages(r, Settle(calls))
           ELSE /\ run' = r
                /\ calls' = Issue(Settle(calls), "generateInContextImage", Head(r.matches))
                /\ UNCHANGED <<saved, isGenerating>>
  /\ UNCHANGED <<selectedTopicIds, platform, generatedImage, generatedCover,
                 rvars, tvars, jvars, ovars>>

\* generateCoverImage resolves: if (coverUrl) setGeneratedCover(coverUrl), then the save
CoverReturn(coverUrl) ==
  /\ run.at = "generateCoverImage"
  /\ generatedCover' = IF IsSome(coverUrl) /\ Val(coverUrl) /= <<>> THEN coverUrl
                       ELSE generatedCover
  /\ run' = [run EXCEPT !.at = "idle"]
  /\ calls' = Settle(calls)
  /\ SaveToHistory(run.processedContent, coverUrl)
  /\ UNCHANGED <<selectedTopicIds, platform, generatedContent, generatedImage,
                 rvars, tvars, jvars, ovars>>

\* generateSocialImage resolves: if (imageUrl) setGeneratedImage(imageUrl), then the save
SocialReturn(imageUrl) ==
  /\ run.at = "generateSocialImage"
  /\ generatedImage' = IF IsSome(imageUrl) /\ Val(imageUrl) /= <<>> THEN imageUrl
                       ELSE generatedImage
  /\ run' = [run EXCEPT !.at = "idle"]
  /\ calls' = Settle(calls)
  /\ SaveToHistory(run.processedContent, imageUrl)
  /\ UNCHANGED <<selectedTopicIds, platform, generatedContent, generatedCover,
                 rvars, tvars, jvars, ovars>>

InsightNext ==
  \/ AutoSelectTopics
  \/ \E id \in TopicIds : ToggleTopic(id)
  \/ \E p \in Platforms : ChoosePlatform(p)
  \/ BackToTopics
  \/ Generate
  \/ \E text \in InsightTexts : InsightsReturn(text)
  \/ \E url \in ImageResults : InContextReturn(url)
  \/ \E url \in ImageResults : CoverReturn(url)
  \/ \E url \in ImageResults : SocialReturn(url)

InsightSpec == InsightInit /\ [][InsightNext]_vars

-----------------------------------------------------------------------------
(* Properties of the resolver *)

Count(seq, x) == Cardinality({k \in 1..Len(seq) : seq[k] = x})
LastRun == scanned[Len(scanned)]
PromptsOf(content) == {MatchAll(content, 1)[k] : k \in 1..Len(MatchAll(content, 1))}

\* C1 (as claimed): a run of the effect over a document in which the token of an
\* untracked prompt occurs two or more times issues exactly one call for that prompt,
\* and at most one request per prompt is outstanding.
C1_PlaceholderDedup ==
  /\ scanned /= <<>> =>
       \A p \in PromptsOf(editorContent) :
          (p \notin LastRun.tracked /\ Count(MatchAll(editorContent, 1), p) >= 2)
            => Count(LastRun.issued, p) = 1
  /\ \A p \in BagToSet(requests) : CopiesIn(p, requests) <= 1

\* C2 (as claimed): the materialized document holds no raw token of a tracked prompt,
\* and every occurrence of the token of a resolved prompt is the image reference to its url.
C2_AllOccurrencesResolve ==
  \A p \in Keys(imagePlaceholders) :
     /\ Occurrences(finalEditorContent, Placeholder(p), 1) = 0
     /\ IsResolved(imagePlaceholders, p) =>
          Occurrences(finalEditorContent,
                      ImageMarkdown(p, Val(Get(imagePlaceholders, p).url)), 1)
            = Occurrences(editorContent, Placeholder(p), 1)

\* C3: no run of the effect issues a request for a prompt that had an entry in the
\* state map when the run started, whatever the state of that entry.
C3_IdempotentRescan ==
  \A i \in 1..Len(scanned) :
     \A k \in 1..Len(scanned[i].issued) : scanned[i].issued[k] \notin scanned[i].tracked

\* C3 witness: the effect ran over a document holding the token of a prompt that was
\* tracked and is still LOADING, and issued nothing.
C3_Witness ==
  /\ scanned /= <<>>
  /\ LastRun.issued = <<>>
  /\ \E p \in PromptsOf(editorContent) :
        p \in LastRun.tracked /\ IsLoading(imagePlaceholders, p)

\* C4 (as claimed): an entry is never removed, and once it is RESOLVED or FAILED it
\* never changes again.
C4_Lifecycle ==
  [][\A p \in Keys(imagePlaceholders) :
        /\ Has(imagePlaceholders', p)
        /\ ~Get(imagePlaceholders, p).isLoading
             => Get(imagePlaceholders', p) = Get(imagePlaceholders, p)]_vars

\* the step in which one pending request for prompt p completes
Completed(p) == BagIn(p, requests) /\ requests' = requests (-) SetToBag({p})

\* the texts that only materialization produces
Markers == {LoadingMarker[2], FailureMarker[2], ImageMarkdown(<<>>, <<>>)[2]}
HasMarker(content) == \E k \in 1..Len(content) : content[k] \in Markers

\* C21: the source text editorContent is only ever a document given by the user or by
\* a history item and never holds a marker; a step in which a request completes, and
\* with it the recomputation of the materialized document, leaves editorContent
\* unchanged; the materialized document is Materialize of the source and the state map.
C21_PureMaterialization ==
  /\ [](editorContent \in Docs /\ ~HasMarker(editorContent))
  /\ [][/\ (\E p \in BagToSet(requests) : Completed(p)) => editorContent' = editorContent
        /\ editorContent' = editorContent =>
             (imagePlaceholders' = imagePlaceholders =>
                Materialize(editorContent', imagePlaceholders') = finalEditorContent)]_vars

\* C21 witness: a request has completed with a url, the materialized document shows
\* the image and differs from the source, and the source still holds the token.
C21_Witness ==
  \E p \in Keys(imagePlaceholders) :
     /\ IsResolved(imagePlaceholders, p)
     /\ Occurrences(editorContent, Placeholder(p), 1) >= 1
     /\ finalEditorContent /= editorContent
     /\ HasMarker(finalEditorContent)

\* C23 (as claimed): when the source holds exactly one token and its prompt is
\* RESOLVED(url), the materialized document is the text before the token, the image
\* reference to url, and the text after the token.
C23_TokenSubstitution ==
  \A p \in Keys(imagePlaceholders) :
     (IsResolved(imagePlaceholders, p) /\ MatchAll(editorContent, 1) = <<p>>)
       => LET i == IndexOf(editorContent, Placeholder(p), 1)
          IN finalEditorContent =
               SubSeq(editorContent, 1, i - 1)
               \o ImageMarkdown(p, Val(Get(imagePlaceholders, p).url))
               \o SubSeq(editorContent, i + Len(Placeholder(p)), Len(editorContent))

\* the states an entry may be moved to by a completion
OutcomeStates ==
  {[isLoading |-> FALSE, url |-> Some(u)] : u \in Urls} \cup {[isLoading |-> FALSE, url |-> None]}
\* the opening of an image reference for prompt p
ImageReferenceOf(p) == <<"\n", "![Generated image for prompt: ">> \o p \o <<"](">>
Shown(ph, content, p) == Has(ph, p) /\ Occurrences(content, Placeholder(p), 1) >= 1

C25_OrderTolerant ==
  /\ [][\A p \in BagToSet(requests) :
          Completed(p) =>
            /\ Len(imagePlaceholders') = Len(imagePlaceholders)
            /\ \A i \in 1..Len(imagePlaceholders) :
                  /\ imagePlaceholders'[i].prompt = imagePlaceholders[i].prompt
                  /\ imagePlaceholders[i].prompt /= p
                       => imagePlaceholders'[i] = imagePlaceholders[i]]_vars
  /\ [](\A p \in BagToSet(requests), q \in BagToSet(requests) :
          p /= q =>
            \A r1 \in ImageResults, r2 \in ImageResults :
               /\ Put(Put(imagePlaceholders, p, Settled(r1)), q, Settled(r2))
                    = Put(Put(imagePlaceholders, q, Settled(r2)), p, Settled(r1))
               /\ (IsSome(r2) /\ Val(r2) /= <<>>)
                    => IsResolved(Put(Put(imagePlaceholders, p, Settled(None)), q, Settled(r2)), q))

\* C25 witness: two distinct prompts were requested, the first one tracked ended
\* FAILED and the second one RESOLVED, and nothing is in flight.
C25_Witness ==
  /\ Len(imagePlaceholders) = 2
  /\ IsFailed(imagePlaceholders, imagePlaceholders[1].prompt)
  /\ IsResolved(imagePlaceholders, imagePlaceholders[2].prompt)
  /\ requests = EmptyBag

-----------------------------------------------------------------------------
(* Properties of the transport client *)

LastAttempt == attempts[Len(attempts)]
LastTimer == timers[Len(timers)]
Is429Or5xx(status) == status = 429 \/ status \in 500..599
\* the number of attempts the claimed policy makes for a sequence of attempt outcomes:
\* it stops at the first outcome that is not 429/5xx, or after maxRetries + 1 attempts
ClaimedCalls(seq) ==
  LET stops == {k \in 1..Len(seq) : ~Is429Or5xx(seq[k]) \/ k = 2 + 1}
  IN IF stops = {} THEN 0 ELSE CHOOSE k \in stops : \A j \in stops : k <= j

\* C5: one network call per attempt, at most maxRetries + 1 = 3 calls; an attempt is
\* followed by another only if its response was 429/5xx; when the call has ended the
\* number of calls is the one the outcomes of the attempts determine; if every response
\* was 429/5xx the call ended in an HTTP error after exactly 2 additional attempts.
C5_BoundedRetry ==
  /\ netCalls <= 2 + 1
  /\ netCalls = Len(attempts) + (IF pc = "fetch" THEN 1 ELSE 0)
  /\ \A k \in 1..(Len(attempts) - 1) : Is429Or5xx(attempts[k])
  /\ (pc = "done" /\ attempts /= <<>>) => netCalls = ClaimedCalls(attempts)
  /\ (pc = "done" /\ attempts /= <<>> /\ \A k \in 1..Len(attempts) : Is429Or5xx(attempts[k]))
       => /\ netCalls = 1 + 2
          /\ IsSome(thrown) /\ Val(thrown).name = "Error"
          /\ Val(thrown).status = LastAttempt

\* C5 witness: three responses 429/5xx in a row, the call ended with the third
C5_Witness ==
  /\ pc = "done"
  /\ Len(attempts) = 3
  /\ \A k \in 1..3 : Is429Or5xx(attempts[k])
  /\ netCalls = 3
  /\ IsSome(thrown)

\* the final response of an ended call was an HTTP error response
EndedInHttpError ==
  pc = "done" /\ attempts /= <<>> /\ LastAttempt /= 0 /\ ~(LastAttempt \in 200..299)

\* C6 (as claimed): a non-ok status other than 429/5xx ends the call after exactly one
\* network call, a 429/5xx without retry budget ends it after that attempt, and the
\* error carries the status and the body text of that final response.
C6_TerminalErrorAsClaimed ==
  /\ (attempts /= <<>> /\ attempts[1] /= 0 /\ ~(attempts[1] \in 200..299)
        /\ ~Is429Or5xx(attempts[1])) => (netCalls = 1 /\ Len(attempts) = 1)
  /\ Len(attempts) = 3 => netCalls = 3
  /\ EndedInHttpError =>
       /\ IsSome(thrown) /\ Val(thrown).name = "Error"
       /\ Val(thrown).status = LastAttempt
       /\ Val(thrown).text = Val(body)

\* C6 (amended): as claimed, except that the error carries the body text of the final
\* response when res.text() delivers it, and the empty text when reading the body fails.
C6_TerminalError ==
  /\ (attempts /= <<>> /\ attempts[1] /= 0 /\ ~(attempts[1] \in 200..299)
        /\ ~Is429Or5xx(attempts[1])) => (netCalls = 1 /\ Len(attempts) = 1)
  /\ Len(attempts) = 3 => netCalls = 3
  /\ EndedInHttpError =>
       /\ IsSome(thrown) /\ Val(thrown).name = "Error"
       /\ Val(thrown).status = LastAttempt
       /\ Val(thrown).text = (IF bodyRead = "ok" THEN Val(body) ELSE <<>>)
       /\ Val(thrown).message =
            <<"H", "T", "T", "P", " ">> \o DecimalDigits(LastAttempt) \o <<" ", ":", " ">>
              \o Val(thrown).text

\* C6 witness: a 404 with body text "b" ended the call after one network call
C6_Witness ==
  /\ pc = "done" /\ attempts = <<404>> /\ netCalls = 1
  /\ body = Some(<<"b">>) /\ bodyRead = "ok"
  /\ Val(thrown).text = <<"b">>

\* C7 (as claimed): the delay of a retry is the value of the Retry-After header whenever
\* the header is present, and the fallback of 1000 ms only when it is absent.
C7_RetryDelay ==
  pc = "wait" =>
    /\ (IsSome(retryAfter) /\ ~Number(retryAfter).nan) => delay = Some(Number(retryAfter).n)
    /\ ~IsSome(retryAfter) => delay = Some(1000)

\* C8: when the timer of an attempt fires while its fetch or body read is pending, the
\* call ends at once in an error outcome (chatCompletion an error string, imagesGenerate
\* undefined) with no further network call, whatever retry budget remains; the timer runs
\* for timeout_ms, 30000 by default for chat and 60000 for images; and a pending attempt
\* always leads to the end of the call, also when the server never answers.
C8_Timeout ==
  /\ [][(pc \in {"fetch", "json", "text"} /\ LastTimer.state = "armed"
           /\ timers'[Len(timers)].state = "fired")
          => /\ pc' = "done"
             /\ netCalls' = netCalls
             /\ IsSome(thrown')
             /\ outcome' = Some(IF Val(call).op = "chat"
                                 THEN ErrorPrefix \o Val(thrown').message ELSE None)]_vars
  /\ [](timers /= <<>> =>
          LastTimer.ms = (IF IsSome(Val(call).timeout_ms) THEN Val(Val(call).timeout_ms)
                          ELSE IF Val(call).op = "chat" THEN 30000 ELSE 60000))
  /\ (pc \in {"fetch", "json", "text"}) ~> (pc = "done")

\* C8 witness: the timer fired during the first fetch of an imagesGenerate call, with
\* the whole retry budget left, and the call resolved to undefined
C8_Witness ==
  /\ pc = "done" /\ netCalls = 1 /\ maxRetries = 2
  /\ LastTimer.state = "fired"
  /\ attempts = <<0>>
  /\ Val(call).op = "image" /\ outcome = Some(None)
  /\ Val(thrown).name = "AbortError"

\* the base URL or the credential is not configured
ConfigurationMissing == OrEmpty(env.base) = <<>> \/ OrEmpty(env.key) = <<>>

\* C9: with the base URL or the credential missing, a call ends at once with the
\* configuration outcome and no network call, timer or attempt.
C9_MissingConfiguration ==
  (ConfigurationMissing /\ pc /= "idle") =>
     /\ pc = "done"
     /\ netCalls = 0 /\ attempts = <<>> /\ timers = <<>>
     /\ thrown = None
     /\ outcome = Some(IF Val(call).op = "chat" THEN ConfigMessage ELSE None)

\* C9 witness: chatCompletion called with a base URL but no credential
C9_Witness ==
  /\ IsSome(env.base) /\ ~IsSome(env.key)
  /\ pc = "done" /\ Val(call).op = "chat" /\ outcome = Some(ConfigMessage)

Pending == pc \in {"fetch", "json", "text", "wait"}
\* the step in which the timer of an ended attempt fires during the backoff wait
FiresInWait ==
  /\ pc = "wait" /\ LastTimer.state = "armed"
  /\ Len(timers') = Len(timers) /\ timers'[Len(timers)].state = "fired"
NotAborted == pc' = "wait" /\ thrown' = thrown /\ outcome' = outcome /\ maxRetries' = maxRetries

\* C28 (as claimed): one timer per attempt; while the call is pending the timer of
\* every earlier attempt is still armed unless it has fired; a timer that fires during
\* the backoff wait aborts nothing; when the call has settled no timer is armed.
C28_TimersAsClaimed ==
  /\ [](/\ Len(timers) = netCalls
        /\ Pending => \A k \in 1..Len(timers) : timers[k].state \in {"armed", "fired"}
        /\ pc = "done" => \A k \in 1..Len(timers) : timers[k].state /= "armed")
  /\ [][FiresInWait => NotAborted]_vars

\* C28 (amended): one timer per attempt; the timer of an attempt is armed while the
\* attempt is pending and stays armed during the backoff wait unless it fires; it is
\* cleared when the next attempt starts, so no timer of an earlier attempt is armed
\* during a later attempt; a timer that fires during the backoff wait aborts neither
\* the wait nor the attempt that follows; when the call has settled no timer is armed.
C28_Timers ==
  /\ [](/\ Len(timers) = netCalls
        /\ \A k \in 1..(Len(timers) - 1) : timers[k].state \in {"cleared", "fired"}
        /\ pc \in {"fetch", "json", "text"} => LastTimer.state = "armed"
        /\ pc = "wait" => LastTimer.state \in {"armed", "fired"}
        /\ pc = "done" => \A k \in 1..Len(timers) : timers[k].state /= "armed")
  /\ [][FiresInWait => NotAborted]_vars

\* C28 witness: the timer of the first attempt fired during the backoff wait, and the
\* second attempt is under way with its own timer armed.
C28_Witness ==
  /\ pc = "fetch" /\ Len(timers) = 2
  /\ timers[1].state = "fired" /\ timers[2].state = "armed"

-----------------------------------------------------------------------------
(* Properties of the decoder *)

\* the texts the three strategies of safeJSON would parse, in their order
Candidates(s) ==
  (IF IsSome(CodeBlockMatch(s, 1)) THEN <<Trim(Val(CodeBlockMatch(s, 1)))>> ELSE <<>>)
  \o (IF Trim(s) /= <<>> /\ Trim(s)[1] \in {"{", "["} THEN <<Trim(s)>> ELSE <<>>)
  \o (IF IsSome(JsonMatch(s)) THEN <<Val(JsonMatch(s))>> ELSE <<>>)

\* the result of the first candidate that parses, the fallback if none does
FirstThatParses(cands, fallback) ==
  IF \E k \in 1..Len(cands) : JSONParse(cands[k]).ok
  THEN LET k == CHOOSE k \in 1..Len(cands) :
                  JSONParse(cands[k]).ok /\ \A j \in 1..(k - 1) : ~JSONParse(cands[j]).ok
       IN [returned |-> "parsed", value |-> JSONParse(cands[k]).value]
  ELSE [returned |-> "fallback", value |-> fallback]

\* C10 (as claimed): safeJSON returns the result of the first of its three strategies,
\* in order, that parses, and the fallback only when all of them fail.
C10_StrategyOrder ==
  IsSome(jsonResult) => Val(jsonResult) = FirstThatParses(Candidates(jsonText), jsonFallback)

\* the end of the span that opens with the brace at p and closes with the brace that
\* balances it, 0 if the braces after p never balance
RECURSIVE BalancedEnd(_, _, _)
BalancedEnd(s, i, depth) ==
  IF i > Len(s) THEN 0
  ELSE IF s[i] = "{" THEN BalancedEnd(s, i + 1, depth + 1)
  ELSE IF s[i] = "}" THEN (IF depth = 1 THEN i ELSE BalancedEnd(s, i + 1, depth - 1))
  ELSE BalancedEnd(s, i + 1, depth)

\* the first balanced {...} span of s at or after from
RECURSIVE BalancedSpan(_, _)
BalancedSpan(s, from) ==
  LET p == IndexOf(s, <<"{">>, from)
  IN IF p = 0 THEN None
     ELSE IF BalancedEnd(s, p + 1, 1) /= 0 THEN Some(SubSeq(s, p, BalancedEnd(s, p + 1, 1)))
     ELSE BalancedSpan(s, p + 1)

\* safeJSON reaches its third strategy on s: no fence, no leading brace or bracket
ReachesSpanStrategy(s) ==
  /\ ~IsSome(CodeBlockMatch(s, 1))
  /\ ~(Trim(s) /= <<>> /\ Trim(s)[1] \in {"{", "["})

\* C11 (as claimed): when safeJSON reaches strategy (c) it parses the first balanced
\* {...} span of the text, so a valid object followed by text with further braces
\* is returned.
C11_BalancedSpan ==
  (IsSome(jsonResult) /\ ReachesSpanStrategy(jsonText) /\ IsSome(BalancedSpan(jsonText, 1)))
    => Val(jsonResult) =
         (IF JSONParse(Val(BalancedSpan(jsonText, 1))).ok
          THEN [returned |-> "parsed", value |-> JSONParse(Val(BalancedSpan(jsonText, 1))).value]
          ELSE [returned |-> "fallback", value |-> jsonFallback])

\* commentary without braces
BraceFree(s) == \A k \in 1..Len(s) : s[k] \notin {"{", "}"}
ParsedObject == [returned |-> "parsed", value |-> JsonObject]

\* C12 (as claimed): the object text J in a json fence, J alone, and J surrounded by
\* brace-free commentary each give the parsed J; a text without brace or bracket
\* gives the fallback of the caller.
C12_Wrappers ==
  IsSome(jsonResult) =>
    /\ jsonText = FenceMark \o <<"j", "s", "o", "n">> \o JsonObject \o FenceMark
         => Val(jsonResult) = ParsedObject
    /\ jsonText = JsonObject => Val(jsonResult) = ParsedObject
    /\ (\E i \in 2..Len(jsonText) :
          /\ StartsWithAt(jsonText, JsonObject, i)
          /\ i + Len(JsonObject) <= Len(jsonText)
          /\ BraceFree(SubSeq(jsonText, 1, i - 1))
          /\ BraceFree(SubSeq(jsonText, i + Len(JsonObject), Len(jsonText))))
         => Val(jsonResult) = ParsedObject
    /\ (\A k \in 1..Len(jsonText) : jsonText[k] \notin {"{", "["})
         => Val(jsonResult) = [returned |-> "fallback", value |-> jsonFallback]

\* the text safeJSON hands to JSON.parse, if a strategy applies
AppliedCandidate(s) == IF Candidates(s) = <<>> THEN None ELSE Some(Candidates(s)[1])

\* C13: safeJSON returns normally for every text and fallback: either a parsed value or
\* the fallback of the caller, and it is the fallback whenever the strategy that
\* applies fails to decode or no strategy applies.
C13_NeverRaises ==
  IsSome(jsonResult) =>
    /\ Val(jsonResult).returned \in {"parsed", "fallback"}
    /\ Val(jsonResult).returned = "fallback" => Val(jsonResult).value = jsonFallback
    /\ (~IsSome(AppliedCandidate(jsonText)) \/ ~JSONParse(Val(AppliedCandidate(jsonText))).ok)
         => Val(jsonResult) = [returned |-> "fallback", value |-> jsonFallback]

\* C13 witness: a fenced text that does not decode gave the fallback
C13_Witness ==
  /\ jsonText = FenceMark \o <<"n">> \o FenceMark
  /\ jsonResult = Some([returned |-> "fallback", value |-> jsonFallback])

-----------------------------------------------------------------------------
(* Properties of chatCompletion *)

\* the envelope holds a first choice whose message content is a non-empty string
HasContent(data) ==
  /\ IsSome(data)
  /\ IsSome(Val(data).choices)
  /\ Len(Val(Val(data).choices)) >= 1
  /\ IsSome(Val(Val(data).choices)[1].message)
  /\ IsSome(Val(Val(Val(data).choices)[1].message).content)
  /\ Val(Val(Val(Val(data).choices)[1].message).content) /= <<>>
ContentOf(data) == Val(Val(Val(Val(data).choices)[1].message).content)

-----------------------------------------------------------------------------
(* Properties of the orchestrator *)

Op == Val(operation)
HasReturned(name) == stage = "returned" /\ Op.name = name /\ Op.input = "given"

\* C15 (as claimed): when the chat call of analyzeNoteContent ends in a transport error,
\* or its reply holds no JSON text, the operation returns exactly the fixed fallback.
C15_AnalysisFallback ==
  (HasReturned("analyzeNoteContent")
     /\ (IsSome(thrown) \/ \A k \in 1..Len(Val(outcome)) : Val(outcome)[k] \notin {"{", "["}))
    => returned = Some(Resolved(AnalysisFallback))

\* the fixed fallback of an operation
FixedFallback(name) ==
  IF name = "generateStackTitle" THEN NewStackTitle
  ELSE IF name = "determineStackCategory" THEN GENERAL
  ELSE NoInsightText

\* C16 (as claimed): when the chat call ends in a transport error, generateStackTitle,
\* determineStackCategory and generateInsights return their fixed fallback value.
C16_FixedFallback ==
  \A name \in {"generateStackTitle", "determineStackCategory", "generateInsights"} :
    (HasReturned(name) /\ IsSome(thrown)) => returned = Some(Resolved(FixedFallback(name)))

C18_ShortCircuit ==
  (stage = "returned" /\ Op.input = "empty") =>
     /\ Op.name \in ChatOperations
     /\ returned = Some(Resolved(
          IF Op.name = "analyzeNoteContent" THEN AnalysisDefault
          ELSE IF Op.name = "generateStackTitle" THEN UntitledStack
          ELSE IF Op.name = "determineStackCategory" THEN GENERAL
          ELSE NoNotesText))
     /\ netCalls = 0 /\ call = None /\ pc = "idle" /\ timers = <<>>

\* C18 witness: generateInsights with an empty note list, the gateway configured
C18_Witness ==
  /\ ~ConfigurationMissing
  /\ stage = "returned" /\ Op.name = "generateInsights" /\ Op.input = "empty"
  /\ returned = Some(Resolved(NoNotesText))
  /\ netCalls = 0

\* the reply of the chat call was this text
ReplyWas(text) == ~IsSome(thrown) /\ outcome = Some(text)

\* C19: determineStackCategory returns a member of the enumeration: TECH if the
\* upper-cased reply contains TECH, else LIFE, else WISDOM, else GENERAL.
C19_Category ==
  (HasReturned("determineStackCategory") /\ Val(returned).settled = "resolved") =>
     LET reply == ToUpperCase(Val(outcome))
         category == Val(returned).value
     IN /\ category \in {TECH, LIFE, WISDOM, GENERAL}
        /\ category = TECH <=> Includes(reply, TECH)
        /\ category = LIFE <=> (~Includes(reply, TECH) /\ Includes(reply, LIFE))
        /\ category = WISDOM <=>
             (~Includes(reply, TECH) /\ ~Includes(reply, LIFE) /\ Includes(reply, WISDOM))
        /\ ReplyWas(<<"T", "E", "C", "H", " ", "l", "o", "o", "k", "s", " ", "r", "i", "g", "h", "t">>) => category = TECH
        /\ ReplyWas(<<"b", "a", "n", "a", "n", "a">>) => category = GENERAL
        /\ ReplyWas(<<"l", "i", "f", "e", " ", "t", "e", "c", "h">>) => category = TECH
        /\ ReplyWas(<<"m", "y", " ", "l", "i", "f", "e">>) => category = LIFE
        /\ ReplyWas(<<"W", "i", "s", "d", "o", "m">>) => category = WISDOM

\* C19 witness: the reply "TECH looks right" gave TECH
C19_Witness ==
  /\ HasReturned("determineStackCategory")
  /\ ReplyWas(<<"T", "E", "C", "H", " ", "l", "o", "o", "k", "s", " ", "r", "i", "g", "h", "t">>)
  /\ returned = Some(Resolved(TECH))

\* the members of an object given as JSON text, from the key that opens at i
RECURSIVE MembersOf(_, _)
MembersOf(v, i) ==
  LET key == ParseString(v, i)
      val == ParseValue(v, key.next + 1)
  IN {[key |-> key.value, value |-> val.value]}
       \cup (IF v[val.next] = "," THEN MembersOf(v, val.next + 1) ELSE {})
ObjectMembers(v) == IF Len(v) > 2 /\ v[1] = "{" THEN MembersOf(v, 2) ELSE {}
HasMember(v, key, opening) ==
  \E m \in ObjectMembers(v) : m.key = <<"\"">> \o key \o <<"\"">> /\ m.value[1] = opening

\* an object with a string category, a list tags and a string sentiment
IsAnalysisResult(v) ==
  /\ HasMember(v, <<"c", "a", "t", "e", "g", "o", "r", "y">>, "\"")
  /\ HasMember(v, <<"t", "a", "g", "s">>, "[")
  /\ HasMember(v, <<"s", "e", "n", "t", "i", "m", "e", "n", "t">>, "\"")

\* C20 (as claimed): every value analyzeNoteContent returns is an AnalysisResult.
C20_AnalysisShape ==
  (stage = "returned" /\ Op.name = "analyzeNoteContent" /\ Val(returned).settled = "resolved")
    => IsAnalysisResult(Val(returned).value)

\* the step of generateSocialImage from the settled chat call to imagesGenerate
StartsSocialImage ==
  /\ IsSome(operation) /\ Op.name = "generateSocialImage"
  /\ stage = "chat" /\ stage' = "image"

-----------------------------------------------------------------------------
(* Properties of the resolution of a placeholder *)

\* C26: every pending attempt of postWithRetry leads to the end of the call, and a
\* prompt that is LOADING leads to RESOLVED or FAILED.
C26_Terminates ==
  /\ (pc \in {"fetch", "json", "text", "wait"}) ~> (pc = "done")
  /\ \A p \in {Prompt1, Prompt2} :
        IsLoading(imagePlaceholders, p)
          ~> (IsResolved(imagePlaceholders, p) \/ IsFailed(imagePlaceholders, p))

\* C26 witness: a prompt went through two retried attempts before its request was
\* settled, and its entry is no longer LOADING.
C26_Witness ==
  /\ requests = EmptyBag /\ stage = "returned"
  /\ Len(attempts) = 3 /\ Len(imagePlaceholders) = 1
  /\ IsFailed(imagePlaceholders, imagePlaceholders[1].prompt)

-----------------------------------------------------------------------------
(* Properties of the insight view *)

\* the names and the arguments of the calls of the run so far
CallNames == [k \in 1..Len(calls) |-> calls[k].name]
InContextArgs ==
  LET ks == SelectSeq([k \in 1..Len(calls) |-> k],
                      LAMBDA k : calls[k].name = "generateInContextImage")
  IN [i \in 1..Len(ks) |-> calls[ks[i]].arg]
\* processInContextImages has returned in the current run
ImagesProcessed ==
  /\ calls /= <<>> /\ run.platform = NEWSLETTER
  /\ run.at \in {"generateCoverImage", "idle"}

\* C22 (as claimed): the content of every item handed to onSaveToHistory is the text
\* generateInsights returned, with its placeholder tokens.
C22_SourceIsSaved ==
  \A k \in 1..Len(saved) : saved[k].content = run.initialContent

\* C29 (as claimed): the calls of a run are made one after another; when
\* processInContextImages has returned, the generateInContextImage calls were one per
\* token occurrence of the text, in document order, whatever their results, and the
\* returned content holds no placeholder token.
C29_SequentialResolver ==
  /\ \A k \in 1..(Len(calls) - 1) : calls[k].settled
  /\ ImagesProcessed =>
       /\ InContextArgs = MatchAll(run.initialContent, 1)
       /\ MatchAll(run.processedContent, 1) = <<>>
       /\ Occurrences(run.processedContent, TokenOpen, 1) = 0

\* the calls a finished run must have made, from its platform and its texts
ExpectedCalls(r) ==
  IF r.platform = SOCIAL_MEDIA THEN <<"generateInsights", "generateSocialImage">>
  ELSE <<"generateInsights">>
       \o [k \in 1..Len(MatchAll(r.initialContent, 1)) |-> "generateInContextImage"]
       \o (IF HasTitle(r.processedContent) THEN <<"generateCoverImage">> ELSE <<>>)

=============================================================================
